---- MODULE Spec2Model ----
(***************************************************************************)
(* State-vector kernel of QubitEngine (backend/src/QuantumRegister.cpp).   *)
(*                                                                         *)
(* Amplitudes are modelled exactly.  Every amplitude the kernels can       *)
(* produce from |0...0> with H, X, Y, Z, S, T and rotations by multiples   *)
(* of pi/2 lies in the ring Z[w][1/sqrt2], w = exp(i*pi/4).  An amplitude  *)
(* is the tuple <<a, b, c, d, k>> standing for                             *)
(*        (a + b*w + c*w^2 + d*w^3) / sqrt(2)^k                            *)
(* kept in lowest terms (smallest k >= 0).  Real quantities (squared       *)
(* moduli, probabilities) are <<p, q, e>> = (p + q*sqrt2) / 2^e.           *)
(* The doubles of the C++ code are thus idealised as exact reals; the      *)
(* rounding error of IEEE arithmetic is outside the model.                 *)
(***************************************************************************)
EXTENDS Integers, Sequences, FiniteSets, TLC

(* ---------------------------------------------------------------------- *)
(* Bounds of the model                                                     *)
(* ---------------------------------------------------------------------- *)
MaxQubits == 3
MaxGates == 2
MaxReversible == 3
SampleBits == 1
MaxObserved == 2
MaxParams == 2
MaxTerms == 2

(* ---------------------------------------------------------------------- *)
(* Exact complex arithmetic: std::complex<double> (QuantumRegister.hpp:9)  *)
(* ---------------------------------------------------------------------- *)
Pow2(e) == 2 ^ e

IsEven(x) == x % 2 = 0

CZero == <<0, 0, 0, 0, 0>>
COne == <<1, 0, 0, 0, 0>>

\* numerator times sqrt2 = (w - w^3), denominator exponent unchanged
MulSqrt2(x) == <<x[2] - x[4], x[1] + x[3], x[2] + x[4], x[3] - x[1], x[5]>>

RECURSIVE CReduce(_)
CReduce(x) ==
  IF x[1] = 0 /\ x[2] = 0 /\ x[3] = 0 /\ x[4] = 0 THEN CZero
  ELSE IF x[5] = 0 THEN x
  ELSE LET m == MulSqrt2(x) IN
       IF IsEven(m[1]) /\ IsEven(m[2]) /\ IsEven(m[3]) /\ IsEven(m[4])
       THEN CReduce(<<m[1] \div 2, m[2] \div 2, m[3] \div 2, m[4] \div 2, x[5] - 1>>)
       ELSE x

RECURSIVE CRaise(_, _)
\* the same number written over sqrt(2)^k, k >= x[5]
CRaise(x, k) ==
  IF x[5] >= k THEN x
  ELSE LET m == MulSqrt2(x) IN CRaise(<<m[1], m[2], m[3], m[4], x[5] + 1>>, k)

CAdd(x, y) ==
  LET k == IF x[5] > y[5] THEN x[5] ELSE y[5]
      u == CRaise(x, k)
      v == CRaise(y, k)
  IN CReduce(<<u[1] + v[1], u[2] + v[2], u[3] + v[3], u[4] + v[4], k>>)

CNeg(x) == <<-x[1], -x[2], -x[3], -x[4], x[5]>>

CSub(x, y) == CAdd(x, CNeg(y))

\* product modulo w^4 = -1
CMul(x, y) ==
  CReduce(<<x[1]*y[1] - x[2]*y[4] - x[3]*y[3] - x[4]*y[2],
            x[1]*y[2] + x[2]*y[1] - x[3]*y[4] - x[4]*y[3],
            x[1]*y[3] + x[2]*y[2] + x[3]*y[1] - x[4]*y[4],
            x[1]*y[4] + x[2]*y[3] + x[3]*y[2] + x[4]*y[1],
            x[5] + y[5]>>)

(* Reals (p + q*sqrt2)/2^e *)
RZero == <<0, 0, 0>>
ROne == <<1, 0, 0>>

RECURSIVE RReduce(_)
RReduce(r) ==
  IF r[1] = 0 /\ r[2] = 0 THEN RZero
  ELSE IF r[3] > 0 /\ IsEven(r[1]) /\ IsEven(r[2])
       THEN RReduce(<<r[1] \div 2, r[2] \div 2, r[3] - 1>>)
       ELSE r

RAdd(r, s) ==
  LET e == IF r[3] > s[3] THEN r[3] ELSE s[3]
  IN RReduce(<<r[1] * Pow2(e - r[3]) + s[1] * Pow2(e - s[3]),
               r[2] * Pow2(e - r[3]) + s[2] * Pow2(e - s[3]), e>>)

RSub(r, s) == RAdd(r, <<-s[1], -s[2], s[3]>>)

\* r * m / d for naturals m, d with d a power of two
RScale(r, m, dexp) == RReduce(<<r[1] * m, r[2] * m, r[3] + dexp>>)

\* sign of p + q*sqrt2 decided in the integers
RPositive(r) ==
  LET p == r[1]
      q == r[2]
  IN \/ p > 0 /\ q >= 0
     \/ p >= 0 /\ q > 0
     \/ p > 0 /\ q < 0 /\ p * p > 2 * q * q
     \/ p < 0 /\ q > 0 /\ 2 * q * q > p * p

RGreater(r, s) == RPositive(RSub(r, s))

\* std::norm: |x|^2
CNorm(x) ==
  RReduce(<<x[1]*x[1] + x[2]*x[2] + x[3]*x[3] + x[4]*x[4],
            x[1]*x[2] + x[2]*x[3] + x[3]*x[4] - x[4]*x[1],
            x[5]>>)

(* ---------------------------------------------------------------------- *)
(* Numeric constants of the kernels.  An angle is an integer m standing    *)
(* for m*pi/2, so that angle/2 = m*pi/4 and exp(i*angle/2) = w^m.          *)
(* ---------------------------------------------------------------------- *)
INV_SQRT_2 == <<1, 0, 0, 0, 1>>

i_unit == <<0, 0, 1, 0, 0>>

\* Complex(1/sqrt2, 1/sqrt2) of applyPhaseT
phase == <<0, 1, 0, 0, 0>>

\* w^m
OmegaPow(m) ==
  LET r == m % 8 IN
  CASE r = 0 -> <<1, 0, 0, 0, 0>>
    [] r = 1 -> <<0, 1, 0, 0, 0>>
    [] r = 2 -> <<0, 0, 1, 0, 0>>
    [] r = 3 -> <<0, 0, 0, 1, 0>>
    [] r = 4 -> <<-1, 0, 0, 0, 0>>
    [] r = 5 -> <<0, -1, 0, 0, 0>>
    [] r = 6 -> <<0, 0, -1, 0, 0>>
    [] r = 7 -> <<0, 0, 0, -1, 0>>

\* std::cos(m*pi/4)
Cos(m) ==
  LET r == m % 8 IN
  CASE r = 0 -> COne
    [] r = 1 \/ r = 7 -> INV_SQRT_2
    [] r = 2 \/ r = 6 -> CZero
    [] r = 3 \/ r = 5 -> CNeg(INV_SQRT_2)
    [] r = 4 -> CNeg(COne)

\* std::sin(m*pi/4)
Sin(m) == Cos(m - 2)

AngleSteps == {-1, 1, 2}

(* ---------------------------------------------------------------------- *)
(* Bit helpers                                                             *)
(* ---------------------------------------------------------------------- *)
Bit(i, q) == (i \div Pow2(q)) % 2

\* i ^ (1 << q)
FlipBit(i, q) == IF Bit(i, q) = 1 THEN i - Pow2(q) ELSE i + Pow2(q)

\* rank & bit, for bit a power of two (or any value >= 1)
RankAnd(rank, bit) == (rank \div bit) % 2 = 1

\* rank ^ bit, for bit a power of two
RankXor(rank, bit) == IF RankAnd(rank, bit) THEN rank - bit ELSE rank + bit

(* ---------------------------------------------------------------------- *)
(* State                                                                   *)
(*   num_qubits, world_size : QuantumRegister members (every rank holds    *)
(*                 the same values); mpi_enabled is the MPI_ENABLED build   *)
(*                 switch.                                                  *)
(*   state       : state[r][i] is the i-th entry of rank r's local vector   *)
(*                 (numerators); the amplitude held by rank r is            *)
(*                 state[r][i] / sqrt(scale[r]).  scale[r] is 1 until a     *)
(*                 measurement divides the vector by a norm.               *)
(*   last        : the kernel call made last and how it completed           *)
(*   ngates      : number of kernel calls made so far                       *)
(* ---------------------------------------------------------------------- *)
VARIABLES num_qubits, world_size, mpi_enabled, state, scale, last, ngates,
          recording_enabled, tape, expectation, diff, rpc, stream, vqe, metal

vars == <<num_qubits, world_size, mpi_enabled, state, scale, last, ngates,
          recording_enabled, tape, expectation, diff, rpc, stream, vqe, metal>>

\* what no kernel of QuantumRegister writes
callers == <<expectation, diff, rpc, stream, vqe, metal>>

Ranks == 0 .. (world_size - 1)

\* QuantumRegister::QuantumRegister: size of the local vector
LocalDim(n, W) ==
  LET total_dim == Pow2(n)
      local_dim == total_dim \div W
  IN IF local_dim = 0 THEN 1 ELSE local_dim

\* as Construct, with the test on local_rank dropped
Construct_EveryRank(n, local_rank, W) ==
  [i \in 0 .. (LocalDim(n, W) - 1) |-> IF i = 0 THEN COne ELSE CZero]

\* QuantumRegister::QuantumRegister: the vector rank local_rank starts with
Construct(n, local_rank, W) ==
  [i \in 0 .. (LocalDim(n, W) - 1) |->
     IF local_rank = 0 /\ i = 0 THEN COne ELSE CZero]

\* state.size()
Size(v) == Cardinality(DOMAIN v)

NoCall ==
  [kind |-> "new", qubits |-> <<>>, angle |-> 0, status |-> "returned",
   cerr |-> FALSE, outcome |-> [r \in Ranks |-> -1],
   sample |-> [r \in Ranks |-> -1], via |-> "kernel"]

\* builds and launches: (MPI_ENABLED, number of ranks)
Builds == {<<FALSE, 1>>, <<TRUE, 1>>, <<TRUE, 2>>}

\* no expectationValue call has returned yet
NoExpectation == [called |-> FALSE, pauli |-> <<>>, value |-> <<>>, after |-> 0]

\* no QuantumDifferentiator call is in progress
NoDiff ==
  [pc |-> "idle", engine |-> "none", current_params |-> <<>>,
   caller_theta |-> <<>>, ansatz |-> <<>>, hamiltonian |-> <<>>,
   i |-> 0, side |-> "plus", params |-> <<>>, qreg |-> <<>>, term |-> 0,
   energy |-> <<0, 0, 0>>, energy_plus |-> <<0, 0, 0>>, gradients |-> <<>>,
   tape |-> <<>>, warned |-> FALSE,
   executions |-> 0, fresh |-> 0, evaluations |-> 0, passes |-> 0,
   passed |-> <<>>]

\* no RunCircuit call is in progress
NoRpc ==
  [pc |-> "idle", n |-> 0, execution_backend |-> "SIMULATOR", operations |-> <<>>,
   freeram |-> 0, memory_checked |-> FALSE, backend |-> "none", qreg |-> <<>>,
   buffered |-> <<>>, op |-> 0, applied |-> 0, state_vector |-> <<>>,
   noisy |-> FALSE, written |-> 0, status |-> "none",
   scale |-> <<1, 0, 0>>, order |-> <<>>, measured |-> <<>>,
   classical_results |-> <<>>, get_result_calls |-> 0, thrown |-> 0]

\* QuantumRegister::QuantumRegister and the member initialisers
InitRegister ==
  /\ num_qubits \in 1 .. MaxQubits
  /\ \E b \in Builds : mpi_enabled = b[1] /\ world_size = b[2]
  /\ state = [r \in Ranks |-> Construct(num_qubits, r, world_size)]
  /\ scale = [r \in Ranks |-> ROne]
  /\ last = NoCall
  /\ ngates = 0
  /\ recording_enabled = FALSE
  /\ tape = <<>>

\* no StreamGates call is in progress
NoStream ==
  [pc |-> "idle", qreg |-> <<>>, scale |-> <<1, 0, 0>>, read |-> <<>>,
   responses |-> <<>>, thrown |-> 0, status |-> "none"]

\* no RunVQE call is in progress
NoVqe ==
  [pc |-> "idle", molecule |-> "H2", max_iters |-> 0, k |-> 0,
   energies |-> <<>>, responses |-> <<>>, status |-> "none"]

\* the register is host-resident and the accelerator context is untouched
NoMetal ==
  [on_gpu |-> FALSE, device |-> "unknown", available |-> FALSE,
   buffer |-> <<>>, transfers |-> 0]

Init ==
  /\ InitRegister
  /\ expectation = NoExpectation
  /\ diff = NoDiff
  /\ rpc = NoRpc
  /\ stream = NoStream
  /\ vqe = NoVqe
  /\ metal = NoMetal

(* ---------------------------------------------------------------------- *)
(* Single-qubit kernels                                                    *)
(* ---------------------------------------------------------------------- *)
\* Complex(re, im) for real re, im
MkComplex(re, im) == CAdd(re, CMul(i_unit, im))

\* The bodies of the pair loops: new values of (state[j], state[j + stride])
\* from a = state[j], b = state[j + stride].

\* applyHadamard
PairH(a, b) == <<CMul(CAdd(a, b), INV_SQRT_2), CMul(CSub(a, b), INV_SQRT_2)>>

\* applyX: std::swap
PairX(a, b) == <<b, a>>

\* as PairY, with the sign of the first product lost
PairY_SameSign(a, b) == <<CMul(i_unit, b), CMul(i_unit, a)>>

\* applyY
PairY(a, b) == <<CMul(CNeg(i_unit), b), CMul(i_unit, a)>>

\* applyZ
PairZ(a, b) == <<a, CNeg(b)>>

\* applyPhaseS
PairS(a, b) == <<a, CMul(b, i_unit)>>

\* applyPhaseT
PairT(a, b) == <<a, CMul(b, phase)>>

\* as PairRY, reading state[j] back after it was overwritten
PairRY_InPlace(angle, a, b) ==
  LET c == Cos(angle)
      s == Sin(angle)
      a2 == CSub(CMul(c, a), CMul(s, b))
  IN <<a2, CAdd(CMul(s, a2), CMul(c, b))>>

\* applyRotationY
PairRY(angle, a, b) ==
  LET c == Cos(angle)
      s == Sin(angle)
  IN <<CSub(CMul(c, a), CMul(s, b)), CAdd(CMul(s, a), CMul(c, b))>>

\* applyRotationZ
PairRZ(angle, a, b) ==
  LET z0 == MkComplex(Cos(-angle), Sin(-angle))
      z1 == MkComplex(Cos(angle), Sin(angle))
  IN <<CMul(a, z0), CMul(b, z1)>>

PairOp(kind, angle, a, b) ==
  CASE kind = "H" -> PairH(a, b)
    [] kind = "X" -> PairX(a, b)
    [] kind = "Y" -> PairY(a, b)
    [] kind = "Z" -> PairZ(a, b)
    [] kind = "S" -> PairS(a, b)
    [] kind = "T" -> PairT(a, b)
    [] kind = "RY" -> PairRY(angle, a, b)
    [] kind = "RZ" -> PairRZ(angle, a, b)

\* kernels that have a hand-written NEON loop under __aarch64__
HasNeonLoop(kind) == kind \in {"H", "X", "Y", "Z", "RZ"}

RECURSIVE ScalarInner(_, _, _)
\* for (j = i; j < i + stride; ++j): the indices j handled, in order
ScalarInner(i, j, stride) ==
  IF j < i + stride THEN <<j>> \o ScalarInner(i, j + 1, stride) ELSE <<>>

RECURSIVE NeonInner_OneLane(_, _, _)
\* as NeonInner, with the vector branch handling one complex number only
NeonInner_OneLane(i, j, stride) ==
  IF j < i + stride
  THEN (IF stride >= 2 /\ j + 2 <= i + stride
        THEN <<j>>
        ELSE <<j>> \o (IF j + 1 < i + stride THEN <<j + 1>> ELSE <<>>))
       \o NeonInner_OneLane(i, j + 2, stride)
  ELSE <<>>

RECURSIVE NeonInner(_, _, _)
\* for (j = i; j < i + stride; j += 2): vector branch handles j and j+1,
\* the scalar fallback handles j and, if inside the block, j+1
NeonInner(i, j, stride) ==
  IF j < i + stride
  THEN (IF stride >= 2 /\ j + 2 <= i + stride
        THEN <<j, j + 1>>
        ELSE <<j>> \o (IF j + 1 < i + stride THEN <<j + 1>> ELSE <<>>))
       \o NeonInner(i, j + 2, stride)
  ELSE <<>>

RECURSIVE BlockLoop(_, _, _, _)
\* for (i = 0; i < local_dim; i += 2 * stride): all low indices handled
BlockLoop(i, local_dim, stride, neon) ==
  IF i < local_dim
  THEN (IF neon THEN NeonInner(i, i, stride) ELSE ScalarInner(i, i, stride))
       \o BlockLoop(i + 2 * stride, local_dim, stride, neon)
  ELSE <<>>

RECURSIVE ApplyPairs(_, _, _, _, _, _)
ApplyPairs(kind, angle, v, visits, stride, k) ==
  IF k > Len(visits) THEN v
  ELSE LET j == visits[k]
           r == PairOp(kind, angle, v[j], v[j + stride])
       IN ApplyPairs(kind, angle,
                     [v EXCEPT ![j] = r[1], ![j + stride] = r[2]],
                     visits, stride, k + 1)

\* applyHadamard, applyX, applyY, applyZ, applyPhaseS, applyPhaseT,
\* applyRotationY, applyRotationZ on one rank's vector
SingleQubitKernel(kind, angle, v, target, neon) ==
  LET local_dim == Size(v)
      stride == Pow2(target)
  IN IF stride < local_dim
     THEN ApplyPairs(kind, angle, v,
                     BlockLoop(0, local_dim, stride, neon /\ HasNeonLoop(kind)),
                     stride, 1)
     ELSE v

applyX(v, target, neon) == SingleQubitKernel("X", 0, v, target, neon)

SingleKinds == {"H", "X", "Y", "Z", "S", "T", "RY", "RZ"}

AnglesOf(kind) == IF kind \in {"RY", "RZ"} THEN AngleSteps ELSE {0}

\* qubit arguments tried: every valid index and the first invalid one
QubitArgs == 0 .. num_qubits

Called(kind, qubits, angle, status, cerr) ==
  [kind |-> kind, qubits |-> qubits, angle |-> angle, status |-> status,
   cerr |-> cerr, outcome |-> [r \in Ranks |-> -1],
   sample |-> [r \in Ranks |-> -1], via |-> "kernel"]

\* the job is running: no rank was aborted by the MPI error handler or is
\* left waiting in an unmatched MPI_Sendrecv
Running == last.status \notin {"mpi_fatal", "blocked"}

\* every rank calls the same single-qubit kernel (SPMD)
CallSingle(kind, target, angle) ==
  /\ Running
  /\ \E neon \in BOOLEAN :
       state' = [r \in Ranks |-> SingleQubitKernel(kind, angle, state[r], target, neon)]
  /\ last' = Called(kind, <<target>>, angle, "returned", FALSE)
  /\ ngates' = ngates + 1
  /\ UNCHANGED <<num_qubits, world_size, mpi_enabled, scale>>
  /\ UNCHANGED <<recording_enabled, tape, callers>>

(* ---------------------------------------------------------------------- *)
(* applyCNOT                                                               *)
(* ---------------------------------------------------------------------- *)
RECURSIVE CNOTSwapList_NoOrder(_, _, _, _)
\* as CNOTSwapList, without the test i < partner
CNOTSwapList_NoOrder(i, local_dim, control, target) ==
  IF i < local_dim
  THEN (IF Bit(i, control) = 1
        THEN <<(<<i, FlipBit(i, target)>>)>>
        ELSE <<>>)
       \o CNOTSwapList_NoOrder(i + 1, local_dim, control, target)
  ELSE <<>>

RECURSIVE CNOTSwapList(_, _, _, _)
\* Case 1 loop: the pairs (i, partner) handed to std::swap, in order
CNOTSwapList(i, local_dim, control, target) ==
  IF i < local_dim
  THEN (IF Bit(i, control) = 1 /\ i < FlipBit(i, target)
        THEN <<(<<i, FlipBit(i, target)>>)>>
        ELSE <<>>)
       \o CNOTSwapList(i + 1, local_dim, control, target)
  ELSE <<>>

RECURSIVE ApplySwaps(_, _, _)
\* std::swap(state[a], state[b]) for each listed pair
ApplySwaps(v, swaps, k) ==
  IF k > Len(swaps) THEN v
  ELSE LET a == swaps[k][1]
           b == swaps[k][2]
       IN ApplySwaps([v EXCEPT ![a] = v[b], ![b] = v[a]], swaps, k + 1)

c_is_global(control, local_dim) == Pow2(control) >= local_dim

t_is_global(target, local_dim) == Pow2(target) >= local_dim

\* distributed branch: the rank this rank names in MPI_Sendrecv, or -1 when
\* it returns without communicating
SendrecvPartner(rank, local_dim, control, target) ==
  LET rank_c_bit == Pow2(control) \div local_dim
      rank_t_bit == Pow2(target) \div local_dim
  IN IF c_is_global(control, local_dim)
     THEN (IF RankAnd(rank, rank_c_bit) /\ t_is_global(target, local_dim)
           THEN RankXor(rank, rank_t_bit)
           ELSE -1)
     ELSE (IF t_is_global(target, local_dim)
           THEN RankXor(rank, rank_t_bit)
           ELSE -1)

\* as DistributedCNOT, installing the whole received buffer when only the
\* target is global
DistributedCNOT_WholeBuffer(rank, v, recv_buf, control, target, neon) ==
  LET local_dim == Size(v)
      rank_c_bit == Pow2(control) \div local_dim
  IN IF c_is_global(control, local_dim)
     THEN (IF RankAnd(rank, rank_c_bit)
           THEN (IF t_is_global(target, local_dim)
                 THEN recv_buf
                 ELSE applyX(v, target, neon))
           ELSE v)
     ELSE (IF t_is_global(target, local_dim) THEN recv_buf ELSE v)

\* distributed branch: the vector of this rank after the call, given the
\* buffer recv_buf received from the partner (unused when none is named)
DistributedCNOT(rank, v, recv_buf, control, target, neon) ==
  LET local_dim == Size(v)
      rank_c_bit == Pow2(control) \div local_dim
  IN IF c_is_global(control, local_dim)
     THEN (IF RankAnd(rank, rank_c_bit)
           THEN (IF t_is_global(target, local_dim)
                 THEN recv_buf
                 ELSE applyX(v, target, neon))
           ELSE v)
     ELSE (IF t_is_global(target, local_dim)
           THEN [i \in DOMAIN v |-> IF Bit(i, control) = 1 THEN recv_buf[i] ELSE v[i]]
           ELSE v)

\* as ThrowsInvalidArgument, with the test missing
ThrowsInvalidArgument_Never(control, target) == FALSE

\* if (control == target) throw std::invalid_argument
ThrowsInvalidArgument(control, target) == control = target

\* applyCNOT as called by every rank: completion status and new vectors.
\* The pairwise MPI_Sendrecv exchange is one step.  A rank naming a partner
\* outside the communicator makes MPI's default error handler abort the job
\* ("mpi_fatal"); a rank whose partner does not name it back waits forever
\* ("blocked").  Without MPI_ENABLED the global case writes to std::cerr and
\* returns.
applyCNOT(st, control, target, mpi, neon) ==
  LET local_dim == Size(st[0])
      W == Cardinality(DOMAIN st)
      partner(r) == SendrecvPartner(r, local_dim, control, target)
  IN IF ThrowsInvalidArgument(control, target)
     THEN [status |-> "invalid_argument", cerr |-> FALSE, st |-> st]
     ELSE IF ~c_is_global(control, local_dim) /\ ~t_is_global(target, local_dim)
     THEN [status |-> "returned", cerr |-> FALSE,
           st |-> [r \in DOMAIN st |->
                     ApplySwaps(st[r], CNOTSwapList(0, local_dim, control, target), 1)]]
     ELSE IF ~mpi
     THEN [status |-> "returned", cerr |-> TRUE, st |-> st]
     ELSE IF \E r \in DOMAIN st : partner(r) # -1 /\ partner(r) \notin DOMAIN st
     THEN [status |-> "mpi_fatal", cerr |-> FALSE, st |-> st]
     ELSE IF \E r \in DOMAIN st : partner(r) # -1 /\ partner(partner(r)) # r
     THEN [status |-> "blocked", cerr |-> FALSE, st |-> st]
     ELSE [status |-> "returned", cerr |-> FALSE,
           st |-> [r \in DOMAIN st |->
                     DistributedCNOT(r, st[r],
                                     IF partner(r) = -1 THEN st[r] ELSE st[partner(r)],
                                     control, target, neon)]]

CallCNOT(control, target) ==
  /\ Running
  /\ \E neon \in BOOLEAN :
       LET res == applyCNOT(state, control, target, mpi_enabled, neon)
       IN /\ state' = res.st
          /\ last' = Called("CNOT", <<control, target>>, 0, res.status, res.cerr)
  /\ ngates' = ngates + 1
  /\ UNCHANGED <<num_qubits, world_size, mpi_enabled, scale>>
  /\ UNCHANGED <<recording_enabled, tape, callers>>

(* ---------------------------------------------------------------------- *)
(* applyToffoli                                                            *)
(* ---------------------------------------------------------------------- *)
RECURSIVE ToffoliSwapList(_, _, _, _, _)
\* the pairs (i, i + t_s) handed to std::swap, in order
ToffoliSwapList(i, local_dim, c1, c2, t) ==
  IF i < local_dim
  THEN (IF Bit(i, c1) = 1 /\ Bit(i, c2) = 1 /\ Bit(i, t) = 0
        THEN <<(<<i, i + Pow2(t)>>)>>
        ELSE <<>>)
       \o ToffoliSwapList(i + 1, local_dim, c1, c2, t)
  ELSE <<>>

applyToffoli(v, c1, c2, t) ==
  LET local_dim == Size(v)
      t_s == Pow2(t)
  IN IF t_s < local_dim
     THEN ApplySwaps(v, ToffoliSwapList(0, local_dim, c1, c2, t), 1)
     ELSE v

CallToffoli(c1, c2, t) ==
  /\ Running
  /\ state' = [r \in Ranks |-> applyToffoli(state[r], c1, c2, t)]
  /\ last' = Called("TOFFOLI", <<c1, c2, t>>, 0, "returned", FALSE)
  /\ ngates' = ngates + 1
  /\ UNCHANGED <<num_qubits, world_size, mpi_enabled, scale>>
  /\ UNCHANGED <<recording_enabled, tape, callers>>

(* ---------------------------------------------------------------------- *)
(* measure                                                                 *)
(* ---------------------------------------------------------------------- *)
RECURSIVE SumLoop(_, _, _, _, _)
\* for (i = from; i < state.size(); ++i) if (bit == b) acc += std::norm(v[i])
SumLoop(v, from, target, b, acc) ==
  IF from >= Size(v) THEN acc
  ELSE LET next == IF Bit(from, target) = b THEN RAdd(acc, CNorm(v[from])) ELSE acc
       IN SumLoop(v, from + 1, target, b, next)

\* sum of std::norm(v[i]) over the indices i >= from whose target bit is b
SumNorm(v, from, target, b) == SumLoop(v, from, target, b, RZero)

\* values dis(gen) can take: the multiples of 2^-SampleBits in [0, 1)
Samples == 0 .. (Pow2(SampleBits) - 1)

\* (dis(gen) > prob0) ? 1 : 0, with prob0 = P0 / sc and dis(gen) = sample / 2^SampleBits
Outcome(v, sc, target, sample) ==
  LET P0 == SumNorm(v, 0, target, 0)
  IN IF RGreater(RScale(sc, sample, SampleBits), P0) THEN 1 ELSE 0

\* the vector with the entries of the other branch set to 0.0
Collapse(v, target, outcome) ==
  [i \in DOMAIN v |-> IF Bit(i, target) = outcome THEN v[i] ELSE CZero]

\* norm > 1e-9.  norm^2 is C / sc; within the bounds of this model every
\* nonzero value of it is far above 1e-18, so the test is C # 0.
NormAboveEps(C) == C # RZero

\* measure on one rank: outcome, collapsed vector and its scale.  Dividing
\* every entry by norm = sqrt(C / sc) turns numerators over sqrt(sc) into
\* numerators over sqrt(C).
measure(v, sc, target, sample) ==
  LET outcome == Outcome(v, sc, target, sample)
      C == SumNorm(v, 0, target, outcome)
  IN [outcome |-> outcome,
      v |-> Collapse(v, target, outcome),
      sc |-> IF NormAboveEps(C) THEN C ELSE sc]

\* every rank calls measure(target); each draws from its own generator
CallMeasure(target, sample) ==
  /\ Running
  /\ LET res == [r \in Ranks |-> measure(state[r], scale[r], target, sample[r])]
     IN /\ state' = [r \in Ranks |-> res[r].v]
        /\ scale' = [r \in Ranks |-> res[r].sc]
        /\ last' = [kind |-> "MEASURE", qubits |-> <<target>>, angle |-> 0,
                    status |-> "returned", cerr |-> FALSE,
                    outcome |-> [r \in Ranks |-> res[r].outcome],
                    sample |-> sample, via |-> "kernel"]
  /\ ngates' = ngates + 1
  /\ UNCHANGED <<num_qubits, world_size, mpi_enabled>>
  /\ UNCHANGED <<recording_enabled, tape, callers>>

(* ---------------------------------------------------------------------- *)
(* Specifications                                                          *)
(* ---------------------------------------------------------------------- *)
SingleStep ==
  /\ ngates < MaxGates
  /\ \E kind \in SingleKinds, target \in QubitArgs :
       \E angle \in AnglesOf(kind) : CallSingle(kind, target, angle)

CNOTStep ==
  /\ ngates < MaxGates
  /\ \E control \in QubitArgs, target \in QubitArgs : CallCNOT(control, target)

ToffoliStep ==
  /\ ngates < MaxGates
  /\ \E c1 \in QubitArgs, c2 \in QubitArgs, t \in QubitArgs : CallToffoli(c1, c2, t)

MeasureStep ==
  /\ ngates < MaxGates
  /\ \E target \in QubitArgs, sample \in [Ranks -> Samples] : CallMeasure(target, sample)

Next ==
  \/ SingleStep
  \/ CNOTStep
  \/ ToffoliStep
  \/ MeasureStep

Spec == Init /\ [][Next]_vars

\* gate kernels only: the store is never measured
NextUnitary ==
  \/ SingleStep
  \/ CNOTStep
  \/ ToffoliStep

SpecUnitary == Init /\ [][NextUnitary]_vars

\* the self-inverse gates, called with valid arguments only
ValidQubits == 0 .. (num_qubits - 1)

ReversibleSingle ==
  /\ ngates < MaxReversible
  /\ \E kind \in {"H", "X", "Y", "Z"}, target \in ValidQubits :
       CallSingle(kind, target, 0)

ReversibleCNOT ==
  /\ ngates < MaxReversible
  /\ \E control \in ValidQubits, target \in ValidQubits :
       control # target /\ CallCNOT(control, target)

ReversibleToffoli ==
  /\ ngates < MaxReversible
  /\ \E c1 \in ValidQubits, c2 \in ValidQubits, t \in ValidQubits :
       c1 # c2 /\ c1 # t /\ c2 # t /\ CallToffoli(c1, c2, t)

NextReversible ==
  \/ ReversibleSingle
  \/ ReversibleCNOT
  \/ ReversibleToffoli

SpecReversible == Init /\ [][NextReversible]_vars

(* ---------------------------------------------------------------------- *)
(* Derived quantities                                                      *)
(* ---------------------------------------------------------------------- *)
local_dim == LocalDim(num_qubits, world_size)

\* sum over the local indices of rank r of |a_i|^2, times scale[r]
LocalNorm(r) == RAdd(SumNorm(state[r], 0, 0, 0), SumNorm(state[r], 0, 0, 1))

TypeOK ==
  /\ num_qubits \in 1 .. MaxQubits
  /\ world_size \in {1, 2}
  /\ mpi_enabled \in BOOLEAN
  /\ DOMAIN state = Ranks
  /\ \A r \in Ranks : DOMAIN state[r] = 0 .. (local_dim - 1)
  /\ ngates \in 0 .. (MaxGates + MaxReversible)
  /\ last.status \in {"returned", "invalid_argument", "mpi_fatal", "blocked"}

(* ---------------------------------------------------------------------- *)
(* Helpers of the properties                                               *)
(* ---------------------------------------------------------------------- *)
IsLocal(q) == Pow2(q) < local_dim

SeqRange(sq) == {sq[k] : k \in 1 .. Len(sq)}

FreshStore == [r \in Ranks |-> [i \in 0 .. (local_dim - 1) |->
                 IF r = 0 /\ i = 0 THEN COne ELSE CZero]]

\* the 2x2 matrix <<m00, m01, m10, m11>> of a single-qubit gate
Matrix(kind, angle) ==
  CASE kind = "H" -> <<INV_SQRT_2, INV_SQRT_2, INV_SQRT_2, CNeg(INV_SQRT_2)>>
    [] kind = "X" -> <<CZero, COne, COne, CZero>>
    [] kind = "Y" -> <<CZero, CNeg(i_unit), i_unit, CZero>>
    [] kind = "Z" -> <<COne, CZero, CZero, CNeg(COne)>>
    [] kind = "S" -> <<COne, CZero, CZero, i_unit>>
    [] kind = "T" -> <<COne, CZero, CZero, OmegaPow(1)>>
    [] kind = "RY" -> <<Cos(angle), CNeg(Sin(angle)), Sin(angle), Cos(angle)>>
    [] kind = "RZ" -> <<OmegaPow(-angle), CZero, CZero, OmegaPow(angle)>>

\* the matrix applied to qubit q of the vector v
MatrixOnQubit(kind, angle, v, q) ==
  LET m == Matrix(kind, angle)
  IN [i \in DOMAIN v |->
        IF Bit(i, q) = 0
        THEN CAdd(CMul(m[1], v[i]), CMul(m[2], v[i + Pow2(q)]))
        ELSE CAdd(CMul(m[3], v[i - Pow2(q)]), CMul(m[4], v[i]))]

LowHalf(q) == {i \in 0 .. (local_dim - 1) : Bit(i, q) = 0}

(* ---------------------------------------------------------------------- *)
(* C1: a freshly constructed register holds 2^n / world_size amplitudes    *)
(* per rank; rank 0's local index 0 is (1,0) and every other entry on      *)
(* every rank is (0,0).                                                    *)
(* ---------------------------------------------------------------------- *)
C1_InitialState ==
  ngates = 0 =>
    \A r \in Ranks :
      /\ Size(state[r]) * world_size = Pow2(num_qubits)
      /\ \A i \in DOMAIN state[r] :
           state[r][i] = IF r = 0 /\ i = 0 THEN COne ELSE CZero
      /\ scale[r] = ROne

C1_Witness ==
  /\ ngates = 0
  /\ num_qubits = 2
  /\ world_size = 2
  /\ Size(state[1]) = 2
  /\ state[0][0] = COne

(* ---------------------------------------------------------------------- *)
(* C2: on a local qubit q every single-qubit kernel handles each pair      *)
(* (i, i + 2^q) with bit q of i clear exactly once, none twice and none    *)
(* skipped, and the result is the gate's 2x2 matrix applied to qubit q;    *)
(* X(0) on a fresh 1-qubit store gives a0 = 0, a1 = 1.                     *)
(* ---------------------------------------------------------------------- *)
C2_Step ==
  (last'.kind \in SingleKinds /\ IsLocal(last'.qubits[1])) =>
    LET kind == last'.kind
        q == last'.qubits[1]
    IN /\ \A neon \in BOOLEAN :
            LET visits == BlockLoop(0, local_dim, Pow2(q), neon /\ HasNeonLoop(kind))
            IN /\ Len(visits) = Cardinality(LowHalf(q))
               /\ SeqRange(visits) = LowHalf(q)
       /\ \A r \in Ranks :
            state'[r] = MatrixOnQubit(kind, last'.angle, state[r], q)
       /\ (kind = "X" /\ num_qubits = 1 /\ world_size = 1 /\ state = FreshStore) =>
            (state'[0][0] = CZero /\ state'[0][1] = COne)

C2_SingleQubitKernels == [][C2_Step]_vars

C2_Witness ==
  /\ last.kind = "Y"
  /\ last.qubits = <<1>>
  /\ num_qubits = 3
  /\ world_size = 1
  /\ state[0][2] = i_unit
  /\ state[0][0] = CZero

(* ---------------------------------------------------------------------- *)
(* C3: for local c # t, applyCNOT(c, t) swaps the amplitude at every i     *)
(* with bit c set and bit t clear with the one at i XOR 2^t, each pair     *)
(* once, and leaves the entries with bit c clear alone, for c < t and for  *)
(* c > t; H(0),CNOT(0,1) gives the Bell state and X(1),CNOT(1,0) gives     *)
(* a3 = 1.                                                                 *)
(* ---------------------------------------------------------------------- *)
C3_Step ==
  (/\ last'.kind = "CNOT"
   /\ last'.qubits[1] # last'.qubits[2]
   /\ IsLocal(last'.qubits[1])
   /\ IsLocal(last'.qubits[2])) =>
    LET c == last'.qubits[1]
        t == last'.qubits[2]
        swaps == CNOTSwapList(0, local_dim, c, t)
        lows == {i \in 0 .. (local_dim - 1) : Bit(i, c) = 1 /\ Bit(i, t) = 0}
    IN /\ last'.status = "returned"
       /\ Len(swaps) = Cardinality(lows)
       /\ SeqRange(swaps) = {<<i, FlipBit(i, t)>> : i \in lows}
       /\ \A r \in Ranks :
            state'[r] = [i \in DOMAIN state[r] |->
                           IF Bit(i, c) = 1 THEN state[r][FlipBit(i, t)]
                                            ELSE state[r][i]]
       /\ (/\ num_qubits = 2 /\ world_size = 1 /\ c = 0 /\ t = 1
           /\ state[0] = [i \in 0 .. 3 |-> IF i < 2 THEN INV_SQRT_2 ELSE CZero]) =>
            state'[0] = [i \in 0 .. 3 |-> IF i \in {0, 3} THEN INV_SQRT_2 ELSE CZero]
       /\ (/\ num_qubits = 2 /\ world_size = 1 /\ c = 1 /\ t = 0
           /\ state[0] = [i \in 0 .. 3 |-> IF i = 2 THEN COne ELSE CZero]) =>
            state'[0] = [i \in 0 .. 3 |-> IF i = 3 THEN COne ELSE CZero]

C3_LocalCNOT == [][C3_Step]_vars

C3_Witness ==
  /\ last.kind = "CNOT"
  /\ last.qubits = <<0, 1>>
  /\ num_qubits = 2
  /\ world_size = 1
  /\ state[0] = [i \in 0 .. 3 |-> IF i \in {0, 3} THEN INV_SQRT_2 ELSE CZero]

(* ---------------------------------------------------------------------- *)
(* C4: applyCNOT(c, c) fails with an invalid-argument error and leaves     *)
(* the amplitude store as it was before the call.                          *)
(* ---------------------------------------------------------------------- *)
C4_Step ==
  (last'.kind = "CNOT" /\ last'.qubits[1] = last'.qubits[2]) =>
    /\ last'.status = "invalid_argument"
    /\ state' = state
    /\ scale' = scale

C4_EqualControlTarget == [][C4_Step]_vars

C4_Witness ==
  /\ last.kind = "CNOT"
  /\ last.qubits = <<0, 0>>
  /\ last.status = "invalid_argument"
  /\ ngates = 2
  /\ state # FreshStore

(* ---------------------------------------------------------------------- *)
(* Helpers of the properties on arguments                                  *)
(* ---------------------------------------------------------------------- *)
GateKinds == SingleKinds \cup {"CNOT", "TOFFOLI"}

PairwiseDistinct(qs) == \A a, b \in 1 .. Len(qs) : a # b => qs[a] # qs[b]

AllInRange(qs) == \A a \in 1 .. Len(qs) : qs[a] < num_qubits

\* a qubit is global iff (1 << q) >= local_dim
AnyGlobal(qs) == \E a \in 1 .. Len(qs) : ~IsLocal(qs[a])

(* ---------------------------------------------------------------------- *)
(* C5: applyToffoli(c1, c2, t) with qubits that are not pairwise distinct  *)
(* fails with InvalidArgument instead of returning normally.               *)
(* ---------------------------------------------------------------------- *)
C5_ToffoliDistinct ==
  (last.kind = "TOFFOLI" /\ ~PairwiseDistinct(last.qubits)) =>
    last.status = "invalid_argument"

(* ---------------------------------------------------------------------- *)
(* C6: every gate kernel called with a qubit index >= n reports            *)
(* InvalidArgument and never returns normally as a silent no-op.           *)
(* ---------------------------------------------------------------------- *)
C6_QubitInRange ==
  (last.kind \in GateKinds /\ ~AllInRange(last.qubits)) =>
    last.status = "invalid_argument"

(* ---------------------------------------------------------------------- *)
(* C7: a CNOT with a global control or target in a build without MPI, and  *)
(* a Toffoli with any global qubit, fail with DistributedUnsupported       *)
(* rather than returning normally.                                         *)
(* ---------------------------------------------------------------------- *)
C7_DistributedUnsupported ==
  (/\ PairwiseDistinct(last.qubits)
   /\ AllInRange(last.qubits)
   /\ AnyGlobal(last.qubits)
   /\ \/ last.kind = "TOFFOLI"
      \/ last.kind = "CNOT" /\ ~mpi_enabled) =>
    last.status = "distributed_unsupported"

(* ---------------------------------------------------------------------- *)
(* C8: applying a self-inverse gate (H, X, Y, Z, CNOT, Toffoli) twice in   *)
(* a row with the same valid arguments returns the store to the state      *)
(* before the first application, from every reachable state.               *)
(* ---------------------------------------------------------------------- *)
SelfInverseKinds == {"H", "X", "Y", "Z", "CNOT", "TOFFOLI"}

\* the result of one more call of the kernel of `call` on the store st
Again(call, st, neon) ==
  CASE call.kind \in SingleKinds ->
         [status |-> "returned",
          st |-> [r \in DOMAIN st |->
                    SingleQubitKernel(call.kind, call.angle, st[r], call.qubits[1], neon)]]
    [] call.kind = "CNOT" ->
         applyCNOT(st, call.qubits[1], call.qubits[2], mpi_enabled, neon)
    [] call.kind = "TOFFOLI" ->
         [status |-> "returned",
          st |-> [r \in DOMAIN st |->
                    applyToffoli(st[r], call.qubits[1], call.qubits[2], call.qubits[3])]]

C8_Step ==
  (/\ last'.kind \in SelfInverseKinds
   /\ PairwiseDistinct(last'.qubits)
   /\ AllInRange(last'.qubits)
   /\ last'.status = "returned") =>
    \A neon \in BOOLEAN :
      LET second == Again(last', state', neon)
      IN second.status = "returned" /\ second.st = state

C8_SelfInverseTwice == [][C8_Step]_vars

C8_Witness ==
  /\ last.kind = "TOFFOLI"
  /\ last.qubits = <<0, 1, 2>>
  /\ num_qubits = 3
  /\ world_size = 1
  /\ ngates = 3
  /\ state[0][7] = COne

(* ---------------------------------------------------------------------- *)
(* C9: starting from a freshly constructed store, after every gate of a    *)
(* sequence of unitary kernels the sum over all ranks and all local        *)
(* indices of |a_i|^2 is 1.                                                *)
(* ---------------------------------------------------------------------- *)
RECURSIVE SumRanks(_)
SumRanks(r) == IF r >= world_size THEN RZero ELSE RAdd(LocalNorm(r), SumRanks(r + 1))

C9_Normalized ==
  /\ \A r \in Ranks : scale[r] = ROne
  /\ SumRanks(0) = ROne

C9_Witness ==
  /\ last.kind = "RY"
  /\ last.status = "returned"
  /\ ngates = 2
  /\ num_qubits = 2
  /\ world_size = 1
  /\ \A i \in DOMAIN state[0] : state[0][i] # CZero

(* ---------------------------------------------------------------------- *)
(* C10: measure(q) returns 1 exactly when the drawn sample in [0,1) is     *)
(* less than p1; it never returns an outcome whose probability before the  *)
(* measurement is zero (p1 = 1 gives 1, p1 = 0 gives 0), and the collapsed *)
(* state is never the all-zero vector.  Stated for a single rank, where    *)
(* the local p1 is the global one.                                         *)
(* ---------------------------------------------------------------------- *)
C10_Premise ==
  /\ last'.kind = "MEASURE"
  /\ world_size = 1
  /\ last'.qubits[1] < num_qubits
  /\ LocalNorm(0) = scale[0]

\* the safety part: no outcome of probability zero, no all-zero store
C10_SafetyStep ==
  C10_Premise =>
    LET q == last'.qubits[1]
        P1 == SumNorm(state[0], 0, q, 1)
        P0 == SumNorm(state[0], 0, q, 0)
        outcome == last'.outcome[0]
    IN /\ outcome = 1 => P1 # RZero
       /\ outcome = 0 => P0 # RZero
       /\ \E i \in DOMAIN state'[0] : state'[0][i] # CZero

C10_MeasureOutcome == [][C10_SafetyStep]_vars

\* the rule itself: outcome 1 exactly when sample < p1
C10_RuleStep ==
  C10_Premise =>
    LET q == last'.qubits[1]
        P1 == SumNorm(state[0], 0, q, 1)
        sample == RScale(scale[0], last'.sample[0], SampleBits)
    IN (last'.outcome[0] = 1) <=> RGreater(P1, sample)

C10_SampleRule == [][C10_RuleStep]_vars

(* ---------------------------------------------------------------------- *)
(* C11: after measure(q) returns outcome b on a normalized store, every    *)
(* amplitude whose q-bit differs from b is zero, every amplitude whose     *)
(* q-bit equals b is its value before the measurement times one common     *)
(* positive factor, and the sum of |a_i|^2 is 1 again.  Stated for a       *)
(* single rank.  (Amplitudes are state[0][i] / sqrt(scale[0]): a common    *)
(* positive factor leaves the numerators alone and changes the scale.)     *)
(* ---------------------------------------------------------------------- *)
C11_Step ==
  (/\ last'.kind = "MEASURE"
   /\ world_size = 1
   /\ last'.qubits[1] < num_qubits
   /\ LocalNorm(0) = scale[0]) =>
    LET q == last'.qubits[1]
        b == last'.outcome[0]
    IN /\ \A i \in DOMAIN state[0] :
            state'[0][i] = IF Bit(i, q) = b THEN state[0][i] ELSE CZero
       /\ RPositive(scale'[0])
       /\ RAdd(SumNorm(state'[0], 0, 0, 0), SumNorm(state'[0], 0, 0, 1)) = scale'[0]

C11_Collapse == [][C11_Step]_vars

(* ---------------------------------------------------------------------- *)
(* C12: when all ranks of a multi-rank job call measure(q), p1 is reduced  *)
(* across ranks and one sample is broadcast, so every rank returns the     *)
(* same outcome and collapses onto the same branch.                        *)
(* ---------------------------------------------------------------------- *)
C12_RanksAgree ==
  (last.kind = "MEASURE" /\ world_size > 1) =>
    \A r1, r2 \in Ranks : last.outcome[r1] = last.outcome[r2]

\* the same when every rank happens to draw the same sample
C12_RanksAgreeSameSample ==
  (/\ last.kind = "MEASURE"
   /\ world_size > 1
   /\ \A r1, r2 \in Ranks : last.sample[r1] = last.sample[r2]) =>
    \A r1, r2 \in Ranks : last.outcome[r1] = last.outcome[r2]

(* ---------------------------------------------------------------------- *)
(* expectationValue                                                        *)
(* ---------------------------------------------------------------------- *)
PauliOps == {"I", "X", "Y", "Z"}

\* the strings tried: pauli[q + 1] is pauli_string[q]; shorter strings are
\* padded with I by the loop bound
PauliStrings(n) == UNION {[1 .. len -> PauliOps] : len \in 0 .. n}

\* the inner loop of expectationValue: the eigenvalue sign of basis state i
RECURSIVE SignLoop(_, _, _, _, _)
SignLoop(i, pauli_string, n, q, sign) ==
  IF ~(q < n /\ q < Len(pauli_string)) THEN sign
  ELSE LET op == pauli_string[q + 1]
       IN SignLoop(i, pauli_string, n, q + 1,
                   IF op = "Z" /\ Bit(i, q) = 1 THEN -sign ELSE sign)

\* prob < 1e-15: the amplitudes of the model are zero or far above it
BelowEps15(prob) == prob = RZero

\* the outer loop of expectationValue, from index i on
RECURSIVE ExpectationLoop(_, _, _, _, _)
ExpectationLoop(v, n, pauli_string, i, expected_value) ==
  IF i >= Size(v) THEN expected_value
  ELSE LET prob == CNorm(v[i])
       IN IF BelowEps15(prob)
          THEN ExpectationLoop(v, n, pauli_string, i + 1, expected_value)
          ELSE ExpectationLoop(v, n, pauli_string, i + 1,
                 RAdd(expected_value,
                      RScale(prob, SignLoop(i, pauli_string, n, 0, 1), 0)))

\* QuantumRegister::expectationValue on the local vector v (in the units of
\* the vector: the value of the program is this one divided by scale)
expectationValue(v, n, pauli_string) ==
  ExpectationLoop(v, n, pauli_string, 0, RZero)

\* expectation.after is the number of gate calls that came before the call
CallExpectation(pauli_string) ==
  /\ Running
  /\ expectation' =
       [called |-> TRUE, pauli |-> pauli_string,
        value |-> [r \in Ranks |->
                     expectationValue(state[r], num_qubits, pauli_string)],
        after |-> ngates]
  /\ UNCHANGED <<num_qubits, world_size, mpi_enabled, state, scale, last,
                 ngates, recording_enabled, tape, diff, rpc, stream, vqe, metal>>

ExpectationStep ==
  \E pauli_string \in PauliStrings(num_qubits) : CallExpectation(pauli_string)

\* a store is prepared by at most MaxObserved gates and then observed once
Preparing == ~expectation.called /\ ngates < MaxObserved

NextExpectation ==
  \/ Preparing /\ SingleStep
  \/ Preparing /\ CNOTStep
  \/ Preparing /\ ToffoliStep
  \/ ~expectation.called /\ ExpectationStep

SpecExpectation == Init /\ [][NextExpectation]_vars

\* conj(x)
CConj(x) == <<x[1], -x[4], -x[3], -x[2], x[5]>>

\* Re(x) as p + q*sqrt2 over a power of two
CRe(x) ==
  IF IsEven(x[5])
  THEN RReduce(<<2 * x[1], x[2] - x[4], (x[5] \div 2) + 1>>)
  ELSE RReduce(<<x[2] - x[4], x[1], (x[5] + 1) \div 2>>)

\* the scan of a Pauli string for basis index i: the permuted index j and
\* the phase phi
RECURSIVE PauliScan(_, _, _, _, _)
PauliScan(i, pauli_string, q, j, phi) ==
  IF q >= Len(pauli_string) THEN [j |-> j, phi |-> phi]
  ELSE LET op == pauli_string[q + 1]
           set == Bit(i, q) = 1
       IN CASE op = "X" -> PauliScan(i, pauli_string, q + 1, FlipBit(j, q), phi)
            [] op = "Y" -> PauliScan(i, pauli_string, q + 1, FlipBit(j, q),
                             CMul(phi, IF set THEN CNeg(i_unit) ELSE i_unit))
            [] op = "Z" -> PauliScan(i, pauli_string, q + 1, j,
                             IF set THEN CNeg(phi) ELSE phi)
            [] OTHER    -> PauliScan(i, pauli_string, q + 1, j, phi)

\* sum over i of Re(conj(a_i) * phi * a_j)
RECURSIVE PauliSum(_, _, _, _)
PauliSum(v, pauli_string, i, acc) ==
  IF i >= Size(v) THEN acc
  ELSE LET s == PauliScan(i, pauli_string, 0, i, COne)
       IN PauliSum(v, pauli_string, i + 1,
            RAdd(acc, CRe(CMul(CConj(v[i]), CMul(s.phi, v[s.j])))))

\* C13: on one rank, the value returned by expectationValue(pauli) is the sum
\* over the basis indices i of Re(conj(a_i) * phi * a_j), with j and phi from
\* the scan of the string (X and Y flip a bit of j, Y and Z contribute to
\* phi).
C13_PauliExpectation ==
  (expectation.called /\ expectation.after = ngates /\ world_size = 1) =>
    expectation.value[0] = PauliSum(state[0], expectation.pauli, 0, RZero)

\* C13, its example: "X" on the fresh one-qubit store gives 0
C13_XOnZero ==
  (/\ expectation.called /\ expectation.after = ngates
   /\ world_size = 1 /\ num_qubits = 1
   /\ state = FreshStore /\ expectation.pauli = <<"X">>) =>
    expectation.value[0] = RZero

(* ---------------------------------------------------------------------- *)
(* The tape: RecordedGate, enableRecording, clearTape,                     *)
(* applyRegisteredGate, applyRegisteredGateInverse                         *)
(* ---------------------------------------------------------------------- *)
\* RecordedGate::Type of a kernel
RecordedType(kind) ==
  CASE kind = "S" -> "PHASE_S"
    [] kind = "T" -> "PHASE_T"
    [] OTHER -> kind

\* the RecordedGate that describes a kernel call
Recorded(call) ==
  [type |-> RecordedType(call.kind), qubits |-> call.qubits,
   params |-> IF call.kind \in {"RY", "RZ"} THEN <<call.angle>> ELSE <<>>]

\* the gate kinds a tape may hold (MEASURE is never recorded)
RecordedTypes ==
  {"H", "X", "Y", "Z", "CNOT", "RX", "RY", "RZ", "PHASE_S", "PHASE_T", "TOFFOLI"}

\* the recorded gates tried: valid, distinct qubits
RecordedGates(n) ==
  LET Q == 0 .. (n - 1)
  IN {[type |-> t, qubits |-> <<q>>, params |-> <<>>] :
          t \in {"H", "X", "Y", "Z", "PHASE_S", "PHASE_T"}, q \in Q}
     \cup {[type |-> t, qubits |-> <<q>>, params |-> <<a>>] :
          t \in {"RX", "RY", "RZ"}, q \in Q, a \in AngleSteps}
     \cup {[type |-> "CNOT", qubits |-> qs, params |-> <<>>] :
          qs \in {x \in Q \X Q : x[1] # x[2]}}
     \cup {[type |-> "TOFFOLI", qubits |-> qs, params |-> <<>>] :
          qs \in {x \in Q \X Q \X Q : x[1] # x[2] /\ x[1] # x[3] /\ x[2] # x[3]}}

\* enableRecording(enable)
EnableRecording(enable) ==
  /\ recording_enabled' = enable
  /\ UNCHANGED <<num_qubits, world_size, mpi_enabled, state, scale, last,
                 ngates, tape, callers>>

\* clearTape()
ClearTape ==
  /\ tape' = <<>>
  /\ UNCHANGED <<num_qubits, world_size, mpi_enabled, state, scale, last,
                 ngates, recording_enabled, callers>>

\* a single-qubit kernel called from a switch case
Dispatch(st, kind, angle, target, neon) ==
  [status |-> "returned", cerr |-> FALSE,
   st |-> [r \in DOMAIN st |-> SingleQubitKernel(kind, angle, st[r], target, neon)]]

\* the default branch of the switch: nothing is called
Skipped(st) == [status |-> "skipped", cerr |-> FALSE, st |-> st]

\* the angle a switch case passes to its kernel: gate.params[0] where the
\* kernel takes one
KernelAngle(gate) ==
  IF gate.type \in {"RY", "RZ"} THEN gate.params[1] ELSE 0

\* QuantumRegister::applyRegisteredGate on the vectors st of all ranks
applyRegisteredGate(st, gate, neon) ==
  CASE gate.type \in {"H", "X", "Y", "Z", "RY", "RZ"} ->
         Dispatch(st, gate.type, KernelAngle(gate), gate.qubits[1], neon)
    [] gate.type = "CNOT" ->
         applyCNOT(st, gate.qubits[1], gate.qubits[2], mpi_enabled, neon)
    [] OTHER -> Skipped(st)

\* QuantumRegister::applyRegisteredGateInverse on the vectors st of all ranks
applyRegisteredGateInverse(st, gate, neon) ==
  CASE gate.type \in {"H", "X", "Y", "Z", "RY", "RZ"} ->
         Dispatch(st, gate.type, -KernelAngle(gate), gate.qubits[1], neon)
    [] gate.type = "CNOT" ->
         applyCNOT(st, gate.qubits[1], gate.qubits[2], mpi_enabled, neon)
    [] OTHER -> Skipped(st)

\* what a call through the tape leaves in last
CalledVia(via, gate, res) ==
  [kind |-> gate.type, qubits |-> gate.qubits,
   angle |-> IF gate.params = <<>> THEN 0 ELSE gate.params[1],
   status |-> res.status, cerr |-> res.cerr,
   outcome |-> [r \in Ranks |-> -1], sample |-> [r \in Ranks |-> -1],
   via |-> via]

CallRegistered(gate) ==
  /\ Running
  /\ \E neon \in BOOLEAN :
       LET res == applyRegisteredGate(state, gate, neon)
       IN /\ state' = res.st
          /\ last' = CalledVia("applyRegisteredGate", gate, res)
  /\ ngates' = ngates + 1
  /\ UNCHANGED <<num_qubits, world_size, mpi_enabled, scale>>
  /\ UNCHANGED <<recording_enabled, tape, callers>>

CallRegisteredInverse(gate) ==
  /\ Running
  /\ \E neon \in BOOLEAN :
       LET res == applyRegisteredGateInverse(state, gate, neon)
       IN /\ state' = res.st
          /\ last' = CalledVia("applyRegisteredGateInverse", gate, res)
  /\ ngates' = ngates + 1
  /\ UNCHANGED <<num_qubits, world_size, mpi_enabled, scale>>
  /\ UNCHANGED <<recording_enabled, tape, callers>>

\* recording is set up before the run starts
EnableRecordingStep ==
  ngates = 0 /\ \E enable \in BOOLEAN : EnableRecording(enable)

ClearTapeStep == ngates = 0 /\ ClearTape

RegisteredStep ==
  /\ ngates < MaxGates
  /\ \E gate \in RecordedGates(num_qubits) : CallRegistered(gate)

RegisteredInverseStep ==
  /\ ngates < MaxGates
  /\ \E gate \in RecordedGates(num_qubits) : CallRegisteredInverse(gate)

NextTape ==
  \/ EnableRecordingStep
  \/ ClearTapeStep
  \/ SingleStep
  \/ CNOTStep
  \/ ToffoliStep
  \/ RegisteredStep
  \/ RegisteredInverseStep

SpecTape == Init /\ [][NextTape]_vars

\* the kernel kind of a RecordedGate::Type
KernelKind(type) ==
  CASE type = "PHASE_S" -> "S"
    [] type = "PHASE_T" -> "T"
    [] OTHER -> type

\* RecordedGate types whose kernel exists in QuantumRegister
HasKernel(type) == type \in RecordedTypes \ {"RX"}

\* the vectors after calling the kernel of gate directly
KernelEffect(st, gate, neon) ==
  CASE gate.type = "CNOT" ->
         applyCNOT(st, gate.qubits[1], gate.qubits[2], mpi_enabled, neon).st
    [] gate.type = "TOFFOLI" ->
         [r \in DOMAIN st |->
            applyToffoli(st[r], gate.qubits[1], gate.qubits[2], gate.qubits[3])]
    [] OTHER ->
         [r \in DOMAIN st |->
            SingleQubitKernel(KernelKind(gate.type),
                              IF gate.params = <<>> THEN 0 ELSE gate.params[1],
                              st[r], gate.qubits[1], neon)]

\* the RecordedGate of a call made through the tape
GateOf(call) ==
  [type |-> call.kind, qubits |-> call.qubits,
   params |-> IF call.kind \in {"RX", "RY", "RZ"} THEN <<call.angle>> ELSE <<>>]

\* the tape tp replayed from entry k on, gate by gate, on the vectors st
RECURSIVE Replay(_, _, _, _)
Replay(tp, st, k, neon) ==
  IF k > Len(tp) THEN st
  ELSE Replay(tp, applyRegisteredGate(st, tp[k], neon).st, k + 1, neon)

(* ---------------------------------------------------------------------- *)
(* C14: while recording is enabled every gate kernel call that returns     *)
(* appends exactly one Recorded gate (kind, qubits, params) to the tape;   *)
(* while recording is disabled the tape is left unchanged.                 *)
(* ---------------------------------------------------------------------- *)
C14_Step ==
  (ngates' = ngates + 1 /\ last'.via = "kernel" /\ last'.status = "returned") =>
    tape' = IF recording_enabled THEN Append(tape, Recorded(last')) ELSE tape

C14_KernelsRecord == [][C14_Step]_vars

(* ---------------------------------------------------------------------- *)
(* C15: after any gate sequence run with recording enabled, replaying the  *)
(* tape gate by gate with applyRegisteredGate on a fresh store gives the   *)
(* final state of the run.                                                 *)
(* ---------------------------------------------------------------------- *)
C15_RoundTrip ==
  (recording_enabled /\ Running) =>
    \A neon \in BOOLEAN : Replay(tape, FreshStore, 1, neon) = state

(* ---------------------------------------------------------------------- *)
(* C16: for every Recorded gate kind, applyRegisteredGate(gate) has the    *)
(* effect of the kind's kernel called with the recorded qubits and angle,  *)
(* no kind falls through the switch, and applyRegisteredGateInverse(gate)  *)
(* applied next restores the state before.                                 *)
(* ---------------------------------------------------------------------- *)
C16_Step ==
  (ngates' = ngates + 1 /\ last'.via = "applyRegisteredGate") =>
    LET gate == GateOf(last')
    IN /\ last'.status # "skipped"
       /\ HasKernel(gate.type) =>
            \A neon \in BOOLEAN : state' = KernelEffect(state, gate, neon)
       /\ \A neon \in BOOLEAN :
            applyRegisteredGateInverse(state', gate, neon).st = state

C16_Registered == [][C16_Step]_vars

\* C16 for the kinds the switch handles (H, X, Y, Z, CNOT, RY, RZ)
C16_HandledStep ==
  (/\ ngates' = ngates + 1 /\ last'.via = "applyRegisteredGate"
   /\ last'.status = "returned") =>
    LET gate == GateOf(last')
    IN /\ \A neon \in BOOLEAN : state' = KernelEffect(state, gate, neon)
       /\ \A neon \in BOOLEAN :
            applyRegisteredGateInverse(state', gate, neon).st = state

C16_HandledKinds == [][C16_HandledStep]_vars

(* ---------------------------------------------------------------------- *)
(* QuantumDifferentiator: inputs                                           *)
(* ---------------------------------------------------------------------- *)
\* M_PI / 2.0 in the unit of the angles (pi/2)
SHIFT == 1

\* one gate of an ansatz: param is the index (from 1) of the parameter that
\* is its angle, or 0 for a gate without angle
AnsatzGate(kind, qubits, param) ==
  [kind |-> kind, qubits |-> qubits, param |-> param]

\* the ansatz callables tried on n qubits
Ansatzes(n) ==
  {<<AnsatzGate("RY", <<0>>, 1)>>,
   <<AnsatzGate("RY", <<0>>, 1), AnsatzGate("RZ", <<0>>, 2)>>,
   <<AnsatzGate("H", <<0>>, 0), AnsatzGate("RZ", <<0>>, 1)>>,
   <<AnsatzGate("H", <<0>>, 0)>>}
  \cup (IF n >= 2
        THEN {<<AnsatzGate("RY", <<0>>, 1), AnsatzGate("CNOT", <<0, 1>>, 0),
                AnsatzGate("RY", <<1>>, 2)>>}
        ELSE {})

\* the highest parameter index an ansatz reads
RECURSIVE ParamsRead(_, _)
ParamsRead(ansatz, k) ==
  IF k > Len(ansatz) THEN 0
  ELSE LET rest == ParamsRead(ansatz, k + 1)
       IN IF ansatz[k].param > rest THEN ansatz[k].param ELSE rest

\* parameter vectors tried: angles 0 and pi/2
ThetaSteps == {0, 1}

Thetas == UNION {[1 .. P -> ThetaSteps] : P \in 0 .. MaxParams}

\* coefficients tried (0 stands for |coefficient| < 1e-9)
Coefficients == {0, 1}

\* the Pauli strings of the Hamiltonian terms tried on n qubits
TermStrings(n) ==
  {[q \in 1 .. n |-> "Z"], [q \in 1 .. n |-> IF q = 1 THEN "X" ELSE "I"]}

PauliTerms(n) ==
  {[coefficient |-> c, pauli_string |-> ps] :
      c \in Coefficients, ps \in TermStrings(n)}

Hamiltonians(n) == UNION {[1 .. K -> PauliTerms(n)] : K \in 0 .. MaxTerms}

(* ---------------------------------------------------------------------- *)
(* QuantumDifferentiator: the register a call works on                     *)
(* ---------------------------------------------------------------------- *)
\* QuantumRegister qreg(num_qubits) on the single rank of the driver
NewRegister(n) ==
  [st |-> [r \in {0} |-> Construct(n, r, 1)], tape |-> <<>>,
   recording_enabled |-> FALSE]

\* what a gate kernel does to the tape of its register
TapeAfterKernel(tp, recording, call) == tp

\* one gate of the ansatz applied to register reg with the angles params
AnsatzKernel(reg, g, params, neon) ==
  LET angle == IF g.param = 0 THEN 0 ELSE params[g.param]
      call == [kind |-> g.kind, qubits |-> g.qubits, angle |-> angle]
      st == IF g.kind = "CNOT"
            THEN applyCNOT(reg.st, g.qubits[1], g.qubits[2], mpi_enabled, neon).st
            ELSE [r \in DOMAIN reg.st |->
                    SingleQubitKernel(g.kind, angle, reg.st[r], g.qubits[1], neon)]
  IN [st |-> st, tape |-> TapeAfterKernel(reg.tape, reg.recording_enabled, call),
      recording_enabled |-> reg.recording_enabled]

\* applyAnsatz(params, reg), from gate k on
RECURSIVE applyAnsatz(_, _, _, _, _)
applyAnsatz(ansatz, params, reg, k, neon) ==
  IF k > Len(ansatz) THEN reg
  ELSE applyAnsatz(ansatz, params, AnsatzKernel(reg, ansatz[k], params, neon),
                   k + 1, neon)

\* the loop of evaluateEnergy over the terms, from term k on
RECURSIVE EnergyLoop(_, _, _, _, _)
EnergyLoop(v, n, hamiltonian, k, energy) ==
  IF k > Len(hamiltonian) THEN energy
  ELSE EnergyLoop(v, n, hamiltonian, k + 1,
         RAdd(energy, RScale(expectationValue(v, n, hamiltonian[k].pauli_string),
                             hamiltonian[k].coefficient, 0)))

\* QuantumDifferentiator::evaluateEnergy
evaluateEnergy(n, params, ansatz, hamiltonian, neon) ==
  LET qreg == applyAnsatz(ansatz, params, NewRegister(n), 1, neon)
  IN EnergyLoop(qreg.st[0], n, hamiltonian, 1, RZero)

\* as Shifted, shifting the caller's vector itself
Shifted_InPlace(current_params, i, side) ==
  LET moved == [current_params EXCEPT
                  ![i] = IF side = "plus" THEN @ + SHIFT ELSE @ - SHIFT]
  IN [params |-> moved, current_params |-> moved]

\* params_plus / params_minus: a copy of current_params shifted at index i
Shifted(current_params, i, side) ==
  [params |-> [current_params EXCEPT
                 ![i] = IF side = "plus" THEN @ + SHIFT ELSE @ - SHIFT],
   current_params |-> current_params]

\* 0.5 * (energy_plus - energy_minus)
HalfDifference(energy_plus, energy_minus) ==
  RScale(RSub(energy_plus, energy_minus), 1, 1)

\* QuantumDifferentiator::calculateGradients as a function of its arguments
calculateGradients(n, current_params, ansatz, hamiltonian, neon) ==
  [i \in 1 .. Len(current_params) |->
     HalfDifference(
       evaluateEnergy(n, Shifted(current_params, i, "plus").params,
                      ansatz, hamiltonian, neon),
       evaluateEnergy(n, Shifted(current_params, i, "minus").params,
                      ansatz, hamiltonian, neon))]

(* ---------------------------------------------------------------------- *)
(* QuantumDifferentiator::calculateGradients, step by step                 *)
(* ---------------------------------------------------------------------- *)
\* what no step of the differentiator writes
register == <<num_qubits, world_size, mpi_enabled, state, scale, last, ngates,
              recording_enabled, tape, expectation, rpc, stream, vqe, metal>>

\* the differentiator is driven on one rank of the build without MPI (with
\* one rank no qubit is global, and the two builds run the same code)
Driver == world_size = 1 /\ ~mpi_enabled

\* entry: gradients(current_params.size(), 0.0); the loop starts at i = 0
\* (index 1 here)
CallCalculateGradients(theta, ansatz, hamiltonian) ==
  /\ Driver
  /\ diff.pc = "idle"
  /\ diff' = [NoDiff EXCEPT
                !.pc = IF Len(theta) = 0 THEN "return" ELSE "shift",
                !.engine = "shift",
                !.current_params = theta, !.caller_theta = theta,
                !.ansatz = ansatz, !.hamiltonian = hamiltonian, !.i = 1,
                !.gradients = [k \in 1 .. Len(theta) |-> RZero]]
  /\ UNCHANGED register

\* params_plus / params_minus is made and handed to evaluateEnergy
ShiftParams ==
  /\ diff.pc = "shift"
  /\ LET sh == Shifted(diff.current_params, diff.i, diff.side)
     IN diff' = [diff EXCEPT !.pc = "construct", !.params = sh.params,
                             !.current_params = sh.current_params,
                             !.passed = Append(@, sh.params)]
  /\ UNCHANGED register

\* evaluateEnergy: QuantumRegister qreg(num_qubits)
ConstructRegister ==
  /\ diff.pc = "construct"
  /\ diff' = [diff EXCEPT !.pc = "ansatz", !.qreg = NewRegister(num_qubits).st]
  /\ UNCHANGED register

\* evaluateEnergy: applyAnsatz(params, qreg); energy = 0.0
RunAnsatz ==
  /\ diff.pc = "ansatz"
  /\ \E neon \in BOOLEAN :
       LET before == [NewRegister(num_qubits) EXCEPT !.st = diff.qreg]
           after == applyAnsatz(diff.ansatz, diff.params, before, 1, neon)
       IN diff' = [diff EXCEPT
                     !.pc = IF Len(diff.hamiltonian) = 0 THEN "combine" ELSE "expect",
                     !.qreg = after.st, !.term = 1, !.energy = RZero,
                     !.executions = @ + 1,
                     !.fresh = IF diff.qreg = NewRegister(num_qubits).st
                               THEN @ + 1 ELSE @]
  /\ UNCHANGED register

\* evaluateEnergy: energy += term.coefficient * qreg.expectationValue(...)
ExpectTerm ==
  /\ diff.pc = "expect"
  /\ LET t == diff.hamiltonian[diff.term]
     IN diff' = [diff EXCEPT
                   !.pc = IF diff.term = Len(diff.hamiltonian)
                          THEN "combine" ELSE "expect",
                   !.term = @ + 1,
                   !.energy = RAdd(@, RScale(expectationValue(diff.qreg[0],
                                      num_qubits, t.pauli_string),
                                      t.coefficient, 0)),
                   !.evaluations = @ + 1]
  /\ UNCHANGED register

\* evaluateEnergy returns: energy_plus is kept, or gradients[i] is written
\* and the loop goes on
Combine ==
  /\ diff.pc = "combine"
  /\ diff' = IF diff.side = "plus"
             THEN [diff EXCEPT !.pc = "shift", !.side = "minus",
                               !.energy_plus = diff.energy]
             ELSE [diff EXCEPT
                     !.pc = IF diff.i = Len(diff.current_params)
                            THEN "return" ELSE "shift",
                     !.side = "plus", !.i = @ + 1,
                     !.gradients[diff.i] =
                        HalfDifference(diff.energy_plus, diff.energy)]
  /\ UNCHANGED register

\* return gradients
ReturnGradients ==
  /\ diff.pc = "return"
  /\ diff' = [diff EXCEPT !.pc = "returned"]
  /\ UNCHANGED register

\* a driver calls the engine with an ansatz that reads no parameter beyond
\* the vector it is given
CalculateGradientsStep ==
  /\ diff.pc = "idle"
  /\ \E theta \in Thetas, ansatz \in Ansatzes(num_qubits),
        hamiltonian \in Hamiltonians(num_qubits) :
          /\ ParamsRead(ansatz, 1) <= Len(theta)
          /\ CallCalculateGradients(theta, ansatz, hamiltonian)

NextShift ==
  \/ CalculateGradientsStep
  \/ ShiftParams
  \/ ConstructRegister
  \/ RunAnsatz
  \/ ExpectTerm
  \/ Combine
  \/ ReturnGradients

SpecShift == Init /\ [][NextShift]_vars

\* theta with index i moved by delta
MovedAt(theta, i, delta) == [theta EXCEPT ![i] = @ + delta]

RECURSIVE ParamGates(_, _)
ParamGates(tp, k) ==
  IF k > Len(tp) THEN <<>>
  ELSE (IF tp[k].params # <<>> THEN <<k>> ELSE <<>>) \o ParamGates(tp, k + 1)

\* lambda: the Pauli operators of the string applied to a copy of psi
RECURSIVE ApplyPauliString(_, _, _, _, _)
ApplyPauliString(st, n, pauli_string, q, neon) ==
  IF ~(q < n /\ q < Len(pauli_string)) THEN st
  ELSE LET op == pauli_string[q + 1]
       IN ApplyPauliString(
            IF op \in {"X", "Y", "Z"} THEN Dispatch(st, op, 0, q, neon).st ELSE st,
            n, pauli_string, q + 1, neon)

\* overlap += std::conj(sv_lambda[z]) * sv_p[z], from index z on
RECURSIVE OverlapLoop(_, _, _, _)
OverlapLoop(sv_lambda, sv_p, z, overlap) ==
  IF z >= Size(sv_p) THEN overlap
  ELSE OverlapLoop(sv_lambda, sv_p, z + 1,
                   CAdd(overlap, CMul(CConj(sv_lambda[z]), sv_p[z])))

\* overlap * (-0.5 * i_val)
Deriv(overlap) ==
  LET x == CMul(overlap, CNeg(i_unit))
  IN CReduce(<<x[1], x[2], x[3], x[4], x[5] + 2>>)

\* the registers and accumulators of one pass over a Hamiltonian term
Pass(psi, lambda, total_gradients) ==
  [psi |-> psi, lambda |-> lambda, overlap |-> CZero,
   total_gradients |-> total_gradients]

\* a gate call on the vectors st: the gate of the tape ("apply"), its
\* inverse ("inverse"), or applyY / applyZ called directly ("kernel")
GateCall(st, call, neon) ==
  CASE call.how = "apply" -> applyRegisteredGate(st, call.gate, neon).st
    [] call.how = "inverse" -> applyRegisteredGateInverse(st, call.gate, neon).st
    [] call.how = "kernel" ->
         Dispatch(st, call.gate.type, 0, call.gate.qubits[1], neon).st

\* total_gradients[current_param_idx] += contrib; a write beyond the size of
\* total_gradients is not modelled as a change
Contribute(total_gradients, current_param_idx, overlap, coefficient) ==
  IF current_param_idx \in DOMAIN total_gradients
  THEN [total_gradients EXCEPT ![current_param_idx] =
          RAdd(@, RScale(CRe(Deriv(overlap)), 2 * coefficient, 0))]
  ELSE total_gradients

\* one statement of the backward pass on the pass m
Exec(m, call, neon) ==
  CASE call.how = "zero" -> [m EXCEPT !.overlap = CZero]
    [] call.how = "overlap" ->
         [m EXCEPT !.overlap = OverlapLoop(m.lambda[0], m.psi[0], 0, CZero)]
    [] call.how = "contribute" ->
         [m EXCEPT !.total_gradients =
            Contribute(@, call.current_param_idx, m.overlap, call.coefficient)]
    [] call.reg = "psi" -> [m EXCEPT !.psi = GateCall(@, call, neon)]
    [] OTHER -> [m EXCEPT !.lambda = GateCall(@, call, neon)]

\* the statements from position k on, in order
RECURSIVE RunCalls(_, _, _, _)
RunCalls(m, calls, k, neon) ==
  IF k > Len(calls) THEN m
  ELSE RunCalls(Exec(m, calls[k], neon), calls, k + 1, neon)

\* the statements of the iteration of the backward loop for gate; hit says
\* that the gate is the one of parameter current_param_idx
Iteration(gate, hit, current_param_idx, coefficient) ==
  LET undo(reg) == [reg |-> reg, how |-> "inverse", gate |-> gate]
      redo == [reg |-> "psi", how |-> "apply", gate |-> gate]
      generator == [reg |-> "psi", how |-> "kernel",
                    gate |-> [type |-> IF gate.type = "RY" THEN "Y" ELSE "Z",
                              qubits |-> gate.qubits, params |-> <<>>]]
      zero == [how |-> "zero"]
      sum == [how |-> "overlap"]
      add == [how |-> "contribute", current_param_idx |-> current_param_idx,
              coefficient |-> coefficient]
  IN <<undo("psi")>>
     \o (IF ~hit THEN <<>>
         ELSE <<redo, zero>>
              \o (IF gate.type \in {"RY", "RZ"} THEN <<generator, sum, generator>>
                  ELSE <<>>)
              \o <<add, undo("psi")>>)
     \o <<undo("lambda")>>

\* the gate at tape position k is the one of parameter current_param_idx
Hit(k, current_param_idx, param_to_gate_idx) ==
  current_param_idx >= 1 /\ k = param_to_gate_idx[current_param_idx]

\* the backward pass over the tape from position k down
RECURSIVE BackwardLoop(_, _, _, _, _, _, _)
BackwardLoop(tp, k, m, current_param_idx, param_to_gate_idx, coefficient, neon) ==
  IF k < 1 THEN m.total_gradients
  ELSE BackwardLoop(tp, k - 1,
         RunCalls(m, Iteration(tp[k], Hit(k, current_param_idx, param_to_gate_idx),
                               current_param_idx, coefficient), 1, neon),
         IF Hit(k, current_param_idx, param_to_gate_idx)
         THEN current_param_idx - 1 ELSE current_param_idx,
         param_to_gate_idx, coefficient, neon)

\* std::abs(term.coefficient) < 1e-9, for the integer coefficients tried
BelowEps9(coefficient) == coefficient = 0

\* lambda = psi, then the Pauli operators of the string applied to lambda
WithLambda(psi, n, pauli_string, total_gradients, neon) ==
  Pass(psi, ApplyPauliString(psi, n, pauli_string, 0, neon), total_gradients)

\* one pass of the loop over the Hamiltonian terms: forward replay, lambda,
\* backward pass
AdjointPass(n, tp, term, total_gradients, neon) ==
  BackwardLoop(tp, Len(tp),
               WithLambda(Replay(tp, NewRegister(n).st, 1, neon), n,
                          term.pauli_string, total_gradients, neon),
               Len(ParamGates(tp, 1)), ParamGates(tp, 1), term.coefficient, neon)

CallCalculateGradientsAdjoint(theta, ansatz, hamiltonian) ==
  /\ Driver
  /\ diff.pc = "idle"
  /\ diff' = [NoDiff EXCEPT
                !.pc = "trace", !.engine = "adjoint",
                !.current_params = theta, !.caller_theta = theta,
                !.ansatz = ansatz, !.hamiltonian = hamiltonian]
  /\ UNCHANGED register

\* after the trace: the parameterized gates of the tape are counted, a
\* mismatch is written to std::cerr, total_gradients is zeroed
Traced(d, trace_reg) ==
  [d EXCEPT
     !.pc = IF Len(d.hamiltonian) = 0 THEN "return" ELSE "term",
     !.tape = trace_reg.tape, !.qreg = trace_reg.st,
     !.warned = (Len(ParamGates(trace_reg.tape, 1)) # Len(d.current_params)),
     !.gradients = [k \in 1 .. Len(d.current_params) |-> RZero],
     !.term = 1, !.executions = @ + 1]

\* the circuit is recorded on trace_reg
AdjointTrace ==
  /\ diff.pc = "trace"
  /\ \E neon \in BOOLEAN :
       diff' = Traced(diff,
                 applyAnsatz(diff.ansatz, diff.current_params,
                   [NewRegister(num_qubits) EXCEPT !.recording_enabled = TRUE],
                   1, neon))
  /\ UNCHANGED register

\* one iteration of the loop over the Hamiltonian terms
AdjointTerm ==
  /\ diff.pc = "term"
  /\ \E neon \in BOOLEAN :
       LET t == diff.hamiltonian[diff.term]
           next == IF diff.term = Len(diff.hamiltonian) THEN "return" ELSE "term"
       IN diff' = IF BelowEps9(t.coefficient)
                  THEN [diff EXCEPT !.pc = next, !.term = @ + 1]
                  ELSE [diff EXCEPT
                          !.pc = next, !.term = @ + 1, !.passes = @ + 1,
                          !.gradients = AdjointPass(num_qubits, diff.tape, t,
                                                    diff.gradients, neon)]
  /\ UNCHANGED register

CalculateGradientsAdjointStep ==
  /\ diff.pc = "idle"
  /\ \E theta \in Thetas, ansatz \in Ansatzes(num_qubits),
        hamiltonian \in Hamiltonians(num_qubits) :
          /\ ParamsRead(ansatz, 1) <= Len(theta)
          /\ CallCalculateGradientsAdjoint(theta, ansatz, hamiltonian)

NextAdjoint ==
  \/ CalculateGradientsAdjointStep
  \/ AdjointTrace
  \/ AdjointTerm
  \/ ReturnGradients

SpecAdjoint == Init /\ [][NextAdjoint]_vars

(* ---------------------------------------------------------------------- *)
(* C18: for the same n, ansatz, Hamiltonian and theta the gradient vector  *)
(* returned by the adjoint engine equals the one of the parameter-shift    *)
(* engine.                                                                 *)
(* ---------------------------------------------------------------------- *)
C18_AdjointEqualsShift ==
  (diff.engine = "adjoint" /\ diff.pc = "returned") =>
    diff.gradients = calculateGradients(num_qubits, diff.caller_theta,
                                        diff.ansatz, diff.hamiltonian, FALSE)

\* C18, its example: n = 1, ansatz RY(theta), H = {(1, "Z")}, theta = pi/2:
\* the adjoint engine returns the single component -1
C18_Example ==
  (/\ diff.engine = "adjoint" /\ diff.pc = "returned" /\ num_qubits = 1
   /\ diff.ansatz = <<AnsatzGate("RY", <<0>>, 1)>>
   /\ diff.hamiltonian = <<[coefficient |-> 1, pauli_string |-> <<"Z">>]>>
   /\ diff.caller_theta = <<1>>) =>
    diff.gradients = <<(<<-1, 0, 0>>)>>

(* ---------------------------------------------------------------------- *)
(* C19: when the number of parameterized gates in the recorded tape        *)
(* differs from the number of parameters, the adjoint engine reports the   *)
(* mismatch and aborts: no forward/backward pass is run and no gradient    *)
(* vector is returned.                                                     *)
(* ---------------------------------------------------------------------- *)
C19_MismatchAborts ==
  (diff.engine = "adjoint" /\ diff.warned) =>
    (diff.passes = 0 /\ diff.pc # "returned")

(* ---------------------------------------------------------------------- *)
(* QubitEngineServiceImpl::RunCircuit                                      *)
(* ---------------------------------------------------------------------- *)
\* the variables of the register the kernels are called on directly
store == <<num_qubits, world_size, mpi_enabled, state, scale, last, ngates,
           recording_enabled, tape>>

\* longest operation list of a request
MaxOps == 2

\* request->num_qubits() values tried: both sides of each limit, and sizes
\* whose register is small enough to construct
RequestQubits == {-1, 0, 30, 31} \cup (1 .. MaxQubits)

\* memInfo.freeram * memInfo.mem_unit: none, or room for every register
\* tried but not for 30 qubits
FreeRams == {0, Pow2(MaxQubits + 5)}

ExecutionBackends == {"SIMULATOR", "MOCK_HARDWARE", "REAL_IBM_Q"}

\* a GateOperation message; the fields not set keep their default 0
GateOperation(type, control_qubit, target_qubit, classical_register) ==
  [type |-> type, control_qubit |-> control_qubit,
   target_qubit |-> target_qubit, classical_register |-> classical_register,
   second_control_qubit |-> 0, angle |-> 0]

\* the GateOperation messages tried
GateOperations ==
  {GateOperation("HADAMARD", 0, 0, 0),
   GateOperation("PAULI_X", 0, 0, 0),
   GateOperation("PAULI_Y", 0, 0, 0),
   GateOperation("CNOT", 0, 0, 0),
   GateOperation("CNOT", 0, 1, 0),
   GateOperation("MEASURE", 0, 0, 2)}

OperationLists == UNION {[1 .. L -> GateOperations] : L \in 0 .. MaxOps}

\* as LimitExceeded, without the upper limit
LimitExceeded_NoUpper(n) == n <= 0

\* the hard limit check of RunCircuit
LimitExceeded(n) == n <= 0 \/ n > 30

\* hasEnoughMemory(num_qubits) with available_ram bytes free:
\* required_bytes = required_elements * 16, overhead = required_bytes / 20,
\* available_ram > required_bytes + overhead.  The code computes in 64 bits;
\* here the quotient and the comparison are written so that no intermediate
\* value exceeds 2^31
hasEnoughMemory(n, available_ram) ==
  LET required_elements == Pow2(n)
      overhead == 4 * (required_elements \div 5)
                  + (4 * (required_elements % 5)) \div 5
  IN (available_ram - overhead - 1) \div 16 >= required_elements

\* a gate kernel ended as res on a register of scale sc: nothing is measured
GateResult(res, sc) ==
  [status |-> res.status, cerr |-> res.cerr, st |-> res.st, sc |-> sc,
   outcome |-> -1]

\* qreg.measure(target) ended as m on the single rank of the driver
MeasureResult(m) ==
  [status |-> "returned", cerr |-> FALSE, st |-> [r \in {0} |-> m.v],
   sc |-> m.sc, outcome |-> m.outcome]

\* the gate kinds with a case in the switch of SimulatorBackend::applyGate
\* and of QubitEngineServiceImpl::applyGate
SwitchKinds ==
  {"HADAMARD", "PAULI_X", "CNOT", "MEASURE", "TOFFOLI", "PHASE_S", "PHASE_T",
   "ROTATION_Y", "ROTATION_Z"}

\* the kernel a single-qubit case calls
KernelOf(type) ==
  CASE type = "HADAMARD" -> "H"
    [] type = "PAULI_X" -> "X"
    [] type = "PHASE_S" -> "S"
    [] type = "PHASE_T" -> "T"
    [] type = "ROTATION_Y" -> "RY"
    [] type = "ROTATION_Z" -> "RZ"

\* the case of the switch for an operation of a kind in SwitchKinds, on the
\* vectors st (of scale sc) of the register; sample is what dis(gen) draws
\* if the operation measures
SwitchCase(st, sc, op, sample, neon) ==
  CASE op.type = "CNOT" ->
         GateResult(applyCNOT(st, op.control_qubit, op.target_qubit,
                              mpi_enabled, neon), sc)
    [] op.type = "MEASURE" ->
         MeasureResult(measure(st[0], sc, op.target_qubit, sample))
    [] op.type = "TOFFOLI" ->
         GateResult([status |-> "returned", cerr |-> FALSE,
                     st |-> [r \in DOMAIN st |->
                               applyToffoli(st[r], op.control_qubit,
                                            op.second_control_qubit,
                                            op.target_qubit)]], sc)
    [] OTHER ->
         GateResult(Dispatch(st, KernelOf(op.type), op.angle, op.target_qubit,
                             neon), sc)

\* SimulatorBackend::applyGate: kinds without a case reach default: break
SimulatorApplyGate(st, sc, op, sample, neon) ==
  IF op.type \in SwitchKinds
  THEN SwitchCase(st, sc, op, sample, neon)
  ELSE GateResult(Skipped(st), sc)

\* backend->applyGate(op): the simulator calls a kernel, the mock hardware
\* sleeps, the cloud backend buffers the operation
BackendApplyGate(backend, st, sc, op, sample, neon) ==
  IF backend = "SIMULATOR" THEN SimulatorApplyGate(st, sc, op, sample, neon)
  ELSE GateResult([status |-> "returned", cerr |-> FALSE, st |-> st], sc)

\* the amplitudes getResult adds to the response; the mock hardware adds
\* noise to |0...0> and writes at most 1024 amplitudes
ResultVector(backend, n, st) ==
  CASE backend = "SIMULATOR" -> [i \in 1 .. Size(st[0]) |-> st[0][i - 1]]
    [] backend = "MOCK_HARDWARE" ->
         [i \in 1 .. (IF Pow2(n) > 1024 THEN 1024 ELSE Pow2(n)) |->
            IF i = 1 THEN COne ELSE CZero]
    [] OTHER -> [i \in 1 .. Pow2(n) |-> IF i = 1 THEN COne ELSE CZero]

CallRunCircuit(n, execution_backend, operations, freeram) ==
  /\ Driver
  /\ rpc.pc = "idle"
  /\ rpc' = [NoRpc EXCEPT !.pc = "limit", !.n = n,
                          !.execution_backend = execution_backend,
                          !.operations = operations, !.freeram = freeram]
  /\ UNCHANGED <<store, expectation, diff, stream, vqe, metal>>

\* 1. HARD LIMIT CHECK
LimitCheck ==
  /\ rpc.pc = "limit"
  /\ rpc' = IF LimitExceeded(rpc.n)
            THEN [rpc EXCEPT !.pc = "returned", !.status = "INVALID_ARGUMENT"]
            ELSE [rpc EXCEPT !.pc = "memory"]
  /\ UNCHANGED <<store, expectation, diff, stream, vqe, metal>>

\* 2. DYNAMIC MEMORY CHECK
MemoryCheck ==
  /\ rpc.pc = "memory"
  /\ rpc' = IF ~hasEnoughMemory(rpc.n, rpc.freeram)
            THEN [rpc EXCEPT !.pc = "returned", !.memory_checked = TRUE,
                             !.status = "RESOURCE_EXHAUSTED"]
            ELSE [rpc EXCEPT !.pc = "create", !.memory_checked = TRUE]
  /\ UNCHANGED <<store, expectation, diff, stream, vqe, metal>>

\* createBackend(request->execution_backend(), n)
CreateBackend ==
  /\ rpc.pc = "create"
  /\ rpc' = [rpc EXCEPT
               !.pc = IF Len(rpc.operations) = 0 THEN "result" ELSE "gates",
               !.backend = rpc.execution_backend,
               !.qreg = IF rpc.execution_backend = "SIMULATOR"
                        THEN NewRegister(rpc.n).st ELSE <<>>,
               !.op = 1]
  /\ UNCHANGED <<store, expectation, diff, stream, vqe, metal>>

\* after backend->applyGate(op) ended as res: an exception leaves RunCircuit
\* with INVALID_ARGUMENT, otherwise the loop goes on
\* the register id a measured bit belongs to
RegId(op) ==
  IF op.classical_register > 0 THEN op.classical_register ELSE op.target_qubit

\* as Applied, with a catch block that goes on with the next operation
Applied_Continue(r, res) ==
  [r EXCEPT !.pc = IF r.op = Len(r.operations) THEN "result" ELSE "gates",
            !.applied = @ + 1, !.op = @ + 1, !.qreg = res.st,
            !.scale = res.sc, !.order = Append(@, r.op),
            !.thrown = IF res.status = "invalid_argument" THEN r.op ELSE @,
            !.measured = IF res.outcome = -1 THEN @
                         ELSE Append(@, <<r.op, res.outcome>>),
            !.buffered = IF r.backend = "REAL_IBM_Q"
                         THEN Append(@, r.operations[r.op]) ELSE @]

\* after backend->applyGate(op) ended as res: an exception leaves RunCircuit
\* with INVALID_ARGUMENT, otherwise the loop goes on.  order lists the
\* operations handed to the backend, thrown is the one that threw, measured
\* holds the bits qreg.measure returned; applyGate is void and writes
\* nothing to the response
Applied(r, res) ==
  IF res.status = "invalid_argument"
  THEN [r EXCEPT !.pc = "returned", !.applied = @ + 1,
                 !.order = Append(@, r.op), !.thrown = r.op,
                 !.status = "INVALID_ARGUMENT"]
  ELSE [r EXCEPT !.pc = IF r.op = Len(r.operations) THEN "result" ELSE "gates",
                 !.applied = @ + 1, !.op = @ + 1, !.qreg = res.st,
                 !.scale = res.sc, !.order = Append(@, r.op),
                 !.measured = IF res.outcome = -1 THEN @
                              ELSE Append(@, <<r.op, res.outcome>>),
                 !.buffered = IF r.backend = "REAL_IBM_Q"
                              THEN Append(@, r.operations[r.op]) ELSE @]

\* one iteration of the loop over request->operations()
ApplyGate ==
  /\ rpc.pc = "gates"
  /\ \E neon \in BOOLEAN, sample \in Samples :
       rpc' = Applied(rpc, BackendApplyGate(rpc.backend, rpc.qreg, rpc.scale,
                                            rpc.operations[rpc.op], sample,
                                            neon))
  /\ UNCHANGED <<store, expectation, diff, stream, vqe, metal>>

\* the response after the amplitudes sv were added
Written(r, sv) ==
  [r EXCEPT !.pc = "returned", !.state_vector = sv, !.written = Len(sv),
            !.noisy = (r.backend = "MOCK_HARDWARE"), !.status = "OK",
            !.get_result_calls = @ + 1]

\* backend->getResult(response); return grpc::Status::OK
GetResult ==
  /\ rpc.pc = "result"
  /\ rpc' = Written(rpc, ResultVector(rpc.backend, rpc.n, rpc.qreg))
  /\ UNCHANGED <<store, expectation, diff, stream, vqe, metal>>

RunCircuitStep ==
  /\ rpc.pc = "idle"
  /\ \E n \in RequestQubits, execution_backend \in ExecutionBackends,
        operations \in OperationLists, freeram \in FreeRams :
          CallRunCircuit(n, execution_backend, operations, freeram)

NextRpc ==
  \/ RunCircuitStep
  \/ LimitCheck
  \/ MemoryCheck
  \/ CreateBackend
  \/ ApplyGate
  \/ GetResult

SpecRpc == Init /\ [][NextRpc]_vars

(* ---------------------------------------------------------------------- *)
(* C20: RunCircuit with num_qubits outside 1..30 returns InvalidArgument   *)
(* before the memory check, without constructing a backend, applying any   *)
(* gate or writing any amplitude to the response.                          *)
(* ---------------------------------------------------------------------- *)
C20_OutOfRange ==
  (rpc.pc # "idle" /\ (rpc.n < 1 \/ rpc.n > 30)) =>
    /\ rpc.pc \in {"limit", "returned"}
    /\ rpc.pc = "returned" => rpc.status = "INVALID_ARGUMENT"
    /\ ~rpc.memory_checked
    /\ rpc.backend = "none"
    /\ rpc.applied = 0
    /\ rpc.written = 0

C20_Witness ==
  /\ rpc.pc = "returned"
  /\ rpc.n = 31
  /\ rpc.status = "INVALID_ARGUMENT"
  /\ Len(rpc.operations) = MaxOps
  /\ hasEnoughMemory(1, rpc.freeram)

(* ---------------------------------------------------------------------- *)
(* The global amplitude vector of a rank-partitioned store                 *)
(* ---------------------------------------------------------------------- *)
\* the concatenation of the ranks' local vectors: global index g is local
\* index g % local_dim on rank g / local_dim
Concat(st) ==
  [g \in 0 .. (Cardinality(DOMAIN st) * Size(st[0]) - 1) |->
     st[g \div Size(st[0])][g % Size(st[0])]]

(* ---------------------------------------------------------------------- *)
(* C26: in a multi-rank layout a single-qubit gate on a global qubit acts  *)
(* on the global amplitude vector exactly as on a single-node store.       *)
(* ---------------------------------------------------------------------- *)
C26_Step ==
  (/\ ngates' = ngates + 1
   /\ last'.via = "kernel"
   /\ last'.kind \in SingleKinds
   /\ world_size > 1
   /\ last'.qubits[1] < num_qubits
   /\ ~IsLocal(last'.qubits[1])) =>
    Concat(state') =
      MatrixOnQubit(last'.kind, last'.angle, Concat(state), last'.qubits[1])

C26_GlobalSingle == [][C26_Step]_vars

\* C26, its example on n qubits and 2 ranks: after H(n - 1) on the fresh
\* store both ranks hold 1/sqrt(2) at local index 0
C26_Example ==
  (/\ ngates = 1
   /\ world_size = 2
   /\ last.kind = "H"
   /\ last.qubits = <<num_qubits - 1>>) =>
    (state[0][0] = INV_SQRT_2 /\ state[1][0] = INV_SQRT_2)

(* ---------------------------------------------------------------------- *)
(* Distributed runs: an MPI build launched on 2 or 4 ranks                 *)
(* ---------------------------------------------------------------------- *)
\* kernel calls per distributed run
MaxDistributed == 3

\* numbers of ranks of the launches tried
Launches == {2, 4}

\* QuantumRegister::QuantumRegister on every rank of an MPI launch
InitDistributed ==
  /\ num_qubits \in 2 .. MaxQubits
  /\ mpi_enabled = TRUE
  /\ world_size \in Launches
  /\ state = [r \in Ranks |-> Construct(num_qubits, r, world_size)]
  /\ scale = [r \in Ranks |-> ROne]
  /\ last = NoCall
  /\ ngates = 0
  /\ recording_enabled = FALSE
  /\ tape = <<>>
  /\ expectation = NoExpectation
  /\ diff = NoDiff
  /\ rpc = NoRpc
  /\ stream = NoStream
  /\ vqe = NoVqe
  /\ metal = NoMetal

\* every rank calls applyHadamard or applyX on a qubit of the register
RanksSingle ==
  /\ ngates < MaxDistributed
  /\ \E kind \in {"H", "X"}, target \in ValidQubits : CallSingle(kind, target, 0)

\* every rank calls applyCNOT with the same arguments
RanksCNOT ==
  /\ ngates < MaxDistributed
  /\ \E control \in QubitArgs, target \in QubitArgs : CallCNOT(control, target)

NextDistributed ==
  \/ RanksSingle
  \/ RanksCNOT

SpecDistributed == InitDistributed /\ [][NextDistributed]_vars

\* the partition case of a CNOT call: which of control and target is global
PartitionCase(control, target) ==
  <<~IsLocal(control), ~IsLocal(target)>>

(* ---------------------------------------------------------------------- *)
(* C27: with MPI configured and all ranks calling applyCNOT(c, t), the     *)
(* concatenation of the ranks' local vectors after the call equals the     *)
(* single-node CNOT(c, t) applied to the concatenation before the call,    *)
(* when the control is global and the target local, when both are global,  *)
(* and when the control is local and the target global.                    *)
(* ---------------------------------------------------------------------- *)
C27_Step ==
  (/\ ngates' = ngates + 1
   /\ last'.kind = "CNOT"
   /\ AllInRange(last'.qubits)
   /\ PairwiseDistinct(last'.qubits)
   /\ AnyGlobal(last'.qubits)) =>
    /\ last'.status = "returned"
    /\ Concat(state') =
         ApplySwaps(Concat(state),
                    CNOTSwapList(0, Pow2(num_qubits), last'.qubits[1],
                                 last'.qubits[2]), 1)

C27_DistributedCNOT == [][C27_Step]_vars

\* on 4 ranks (|000> + |001>)/sqrt2 went through CNOT(0,1) (control local,
\* target global) and CNOT(1,2) (both global): rank 3 holds 1/sqrt2
C27_Witness ==
  /\ world_size = 4
  /\ num_qubits = 3
  /\ ngates = 3
  /\ last.kind = "CNOT"
  /\ last.status = "returned"
  /\ PartitionCase(last.qubits[1], last.qubits[2]) = <<TRUE, TRUE>>
  /\ state[0][0] = INV_SQRT_2
  /\ state[3][1] = INV_SQRT_2

(* ---------------------------------------------------------------------- *)
(* C28: in a distributed applyCNOT called by all ranks with the same       *)
(* arguments every MPI_Sendrecv posted by a rank is matched by one posted  *)
(* by its partner, so the gate returns on every rank and no rank blocks.   *)
(* ---------------------------------------------------------------------- *)
C28_Matched ==
  (last.kind = "CNOT" /\ ngates > 0) =>
    last.status \in {"returned", "invalid_argument"}

\* C28 for qubits of the register: the exchange is matched on every rank
C28_ValidQubits ==
  (last.kind = "CNOT" /\ ngates > 0 /\ AllInRange(last.qubits)) =>
    last.status \in {"returned", "invalid_argument"}

(* ---------------------------------------------------------------------- *)
(* C29: RunCircuit hands the operations to the backend strictly in request *)
(* order; when applying operation k throws, the RPC returns                *)
(* INVALID_ARGUMENT, no operation after k is applied, getResult is never   *)
(* called and the response carries no state vector; when no operation      *)
(* throws, getResult is called exactly once, after the last operation, and *)
(* the status is OK.                                                       *)
(* ---------------------------------------------------------------------- *)
C29_RequestOrder ==
  /\ rpc.order = [i \in 1 .. rpc.applied |-> i]
  /\ rpc.applied <= Len(rpc.operations)
  /\ rpc.pc # "returned" => rpc.get_result_calls = 0
  /\ rpc.thrown # 0 =>
       /\ rpc.pc = "returned"
       /\ rpc.status = "INVALID_ARGUMENT"
       /\ rpc.applied = rpc.thrown
       /\ rpc.get_result_calls = 0
       /\ rpc.state_vector = <<>>
       /\ rpc.written = 0
  /\ (rpc.pc = "returned" /\ rpc.backend # "none" /\ rpc.thrown = 0) =>
       /\ rpc.status = "OK"
       /\ rpc.applied = Len(rpc.operations)
       /\ rpc.get_result_calls = 1

\* the simulator threw on the first of two operations: CNOT(0, 0)
C29_Witness ==
  /\ rpc.pc = "returned"
  /\ rpc.backend = "SIMULATOR"
  /\ Len(rpc.operations) = 2
  /\ rpc.operations[1].type = "CNOT"
  /\ rpc.operations[2].type = "PAULI_X"
  /\ rpc.order = <<1>>
  /\ rpc.thrown = 1
  /\ rpc.status = "INVALID_ARGUMENT"

\* no operation threw: both were applied in order and getResult was called
C29_WitnessOK ==
  /\ rpc.pc = "returned"
  /\ rpc.backend = "SIMULATOR"
  /\ rpc.order = <<1, 2>>
  /\ rpc.get_result_calls = 1
  /\ rpc.status = "OK"

(* ---------------------------------------------------------------------- *)
(* C21: an operation whose gate kind the executing backend does not        *)
(* implement is rejected with InvalidArgument (RunCircuit on the           *)
(* simulator backend); it is never silently skipped with an OK status.     *)
(* ---------------------------------------------------------------------- *)
C21_UnknownKind ==
  (/\ rpc.backend = "SIMULATOR"
   /\ \E i \in 1 .. rpc.applied :
        rpc.operations[rpc.order[i]].type \notin SwitchKinds) =>
    /\ rpc.pc = "returned"
    /\ rpc.status = "INVALID_ARGUMENT"

(* ---------------------------------------------------------------------- *)
(* C22: for every MEASURE operation executed while serving RunCircuit on   *)
(* the simulator backend, the response's classical-results map holds the   *)
(* measured bit under the operation's classical register id.               *)
(* ---------------------------------------------------------------------- *)
C22_ClassicalResults ==
  (rpc.pc = "returned" /\ rpc.status = "OK") =>
    \A i \in 1 .. Len(rpc.measured) :
      \E j \in 1 .. Len(rpc.classical_results) :
        /\ rpc.classical_results[j][1] = RegId(rpc.operations[rpc.measured[i][1]])
        /\ \/ rpc.classical_results[j][2] = rpc.measured[i][2]
           \/ \E l \in (i + 1) .. Len(rpc.measured) :
                RegId(rpc.operations[rpc.measured[l][1]]) =
                  RegId(rpc.operations[rpc.measured[i][1]])

(* ---------------------------------------------------------------------- *)
(* StreamGates                                                             *)
(* ---------------------------------------------------------------------- *)
\* operations read from one stream
MaxStream == 2

\* int num_qubits = 3 of StreamGates
StreamQubits == 3

\* the GateOperation messages a client streams: qubits of the register, the
\* first qubit outside it as target and as control, equal control and
\* target, a kind without a case, and measurements with and without a
\* classical register
StreamOperations ==
  {GateOperation("HADAMARD", 0, 0, 0),
   GateOperation("PAULI_X", 0, StreamQubits, 0),
   GateOperation("PAULI_Y", 0, 0, 0),
   GateOperation("CNOT", 0, 0, 0),
   GateOperation("CNOT", 0, 1, 0),
   GateOperation("CNOT", StreamQubits, 1, 0),
   GateOperation("MEASURE", 0, 0, 2),
   GateOperation("MEASURE", 0, 1, 0)}

\* QubitEngineServiceImpl::applyGate: kinds without a case reach
\* default: throw std::invalid_argument
ServiceApplyGate(st, sc, op, sample, neon) ==
  IF op.type \in SwitchKinds
  THEN SwitchCase(st, sc, op, sample, neon)
  ELSE GateResult([status |-> "invalid_argument", cerr |-> FALSE, st |-> st],
                  sc)

\* the StateResponse of one operation: what the MEASURE case stored in the
\* fresh response, and what serializeState added
StateResponse(op, res) ==
  [classical_results |-> IF res.outcome = -1 THEN <<>>
                         ELSE <<<<RegId(op), res.outcome>>>>,
   state_vector |-> [i \in 1 .. Size(res.st[0]) |-> res.st[0][i - 1]]]

\* StreamGates up to the first stream->Read
CallStreamGates ==
  /\ Driver
  /\ stream.pc = "idle"
  /\ stream' = [NoStream EXCEPT !.pc = "reading",
                                !.qreg = NewRegister(StreamQubits).st]
  /\ UNCHANGED <<store, expectation, diff, rpc, vqe, metal>>

\* one iteration of while (stream->Read(&op)) whose applyGate ended as res:
\* an exception leaves StreamGates through its only catch block
Streamed(s, op, res) ==
  IF res.status = "invalid_argument"
  THEN [s EXCEPT !.pc = "returned", !.read = Append(@, op),
                 !.thrown = Len(s.read) + 1, !.status = "INTERNAL"]
  ELSE [s EXCEPT !.read = Append(@, op), !.qreg = res.st, !.scale = res.sc,
                 !.responses = Append(@, [of |-> Len(s.read) + 1,
                                          response |-> StateResponse(op, res)])]

\* stream->Read(&op) returned true
StreamOperation ==
  /\ stream.pc = "reading"
  /\ Len(stream.read) < MaxStream
  /\ \E op \in StreamOperations, sample \in Samples, neon \in BOOLEAN :
       stream' = Streamed(stream, op,
                          ServiceApplyGate(stream.qreg, stream.scale, op,
                                           sample, neon))
  /\ UNCHANGED <<store, expectation, diff, rpc, vqe, metal>>

\* stream->Read(&op) returned false: the client closed the stream
StreamClose ==
  /\ stream.pc = "reading"
  /\ stream' = [stream EXCEPT !.pc = "returned", !.status = "OK"]
  /\ UNCHANGED <<store, expectation, diff, rpc, vqe, metal>>

NextStream ==
  \/ CallStreamGates
  \/ StreamOperation
  \/ StreamClose

SpecStream == Init /\ [][NextStream]_vars

\* operation i of the stream names a qubit outside the register
OutsideRegister(op) ==
  op.target_qubit >= StreamQubits \/ op.control_qubit >= StreamQubits

(* ---------------------------------------------------------------------- *)
(* C23: in streaming mode the register has 3 qubits, and an operation      *)
(* whose target or control qubit is >= 3 makes the stream fail with        *)
(* InvalidArgument; no StateResponse is written for that operation.        *)
(* ---------------------------------------------------------------------- *)
C23_OutsideRegister ==
  \A i \in 1 .. Len(stream.read) :
    OutsideRegister(stream.read[i]) =>
      /\ stream.pc = "returned"
      /\ stream.status = "INVALID_ARGUMENT"
      /\ \A j \in 1 .. Len(stream.responses) : stream.responses[j].of # i

\* the register of a stream has 2^3 amplitudes
C23_ThreeQubits ==
  stream.pc # "idle" => Size(stream.qreg[0]) = Pow2(StreamQubits)

\* C21 on the streaming path: an operation of a kind without a case ends
\* the stream with InvalidArgument
C21_Streaming ==
  \A i \in 1 .. Len(stream.read) :
    stream.read[i].type \notin SwitchKinds =>
      /\ stream.pc = "returned"
      /\ stream.status = "INVALID_ARGUMENT"

\* C21 on the streaming path, whatever the status code: the operation is
\* not skipped, the stream ends and no response is written for it
C21_StreamingRejected ==
  \A i \in 1 .. Len(stream.read) :
    stream.read[i].type \notin SwitchKinds =>
      /\ stream.pc = "returned"
      /\ stream.status # "OK"
      /\ stream.thrown = i
      /\ \A j \in 1 .. Len(stream.responses) : stream.responses[j].of # i

\* C22 on the streaming path: the response of a MEASURE holds the measured
\* bit (the target bit of every amplitude left) under the register id
C22_Streaming ==
  \A j \in 1 .. Len(stream.responses) :
    LET op == stream.read[stream.responses[j].of]
        response == stream.responses[j].response
    IN op.type = "MEASURE" =>
         /\ Len(response.classical_results) = 1
         /\ response.classical_results[1][1] = RegId(op)
         /\ \A i \in 1 .. Len(response.state_vector) :
              response.state_vector[i] # CZero =>
                Bit(i - 1, op.target_qubit) = response.classical_results[1][2]

(* ---------------------------------------------------------------------- *)
(* RunVQE                                                                  *)
(* ---------------------------------------------------------------------- *)
\* largest request->max_iterations() tried
MaxIterations == 7

\* the convergence threshold -1.13 of RunVQE, in hundredths of a Hartree
THRESHOLD == -113

\* values of current_energy at the end of an iteration, in hundredths.  The
\* LiH Hamiltonian is -7.86 * II, whose energy is -7.86 for every state; the
\* H2 energy depends on the parameters reached, which the optimizer, the
\* learning rate and the random SPSA directions decide: a value above the
\* threshold, the threshold itself and a value below it
Energies(molecule) ==
  IF molecule = "LiH" THEN {-786} ELSE {-88, -113, -114}

Molecules == {"H2", "LiH"}

\* if (k % 5 == 0 || k == max_iters - 1)
Reports(k, max_iters) == k % 5 = 0 \/ k = max_iters - 1

\* if (current_energy < -1.13)
Converged(current_energy) == current_energy < THRESHOLD

\* RunVQE up to the first test of the loop condition
CallRunVQE(molecule, max_iterations) ==
  /\ Driver
  /\ vqe.pc = "idle"
  /\ vqe' = [NoVqe EXCEPT !.pc = IF 0 < max_iterations THEN "loop" ELSE "return",
                          !.molecule = molecule, !.max_iters = max_iterations]
  /\ UNCHANGED <<store, expectation, diff, rpc, stream, metal>>

RunVQEStep ==
  /\ vqe.pc = "idle"
  /\ \E molecule \in Molecules, max_iterations \in -1 .. MaxIterations :
       CallRunVQE(molecule, max_iterations)

\* as StreamProgress, without the break after a converged response
StreamProgress_NoBreak(v, current_energy) ==
  LET resp == [iteration |-> v.k, energy |-> current_energy,
               converged |-> Converged(current_energy)]
      written == [v EXCEPT !.energies = Append(@, current_energy),
                           !.responses = IF Reports(v.k, v.max_iters)
                                         THEN Append(@, resp) ELSE @]
  IN [written EXCEPT !.k = v.k + 1,
                     !.pc = IF v.k + 1 < v.max_iters THEN "loop" ELSE "return"]

\* the end of iteration v.k, whose optimizer step left current_energy:
\* the Stream Progress block, then k++ and the loop condition
StreamProgress(v, current_energy) ==
  LET resp == [iteration |-> v.k, energy |-> current_energy,
               converged |-> Converged(current_energy)]
      written == [v EXCEPT !.energies = Append(@, current_energy),
                           !.responses = IF Reports(v.k, v.max_iters)
                                         THEN Append(@, resp) ELSE @]
  IN IF Reports(v.k, v.max_iters) /\ Converged(current_energy)
     THEN [written EXCEPT !.pc = "return"]
     ELSE [written EXCEPT !.k = v.k + 1,
                          !.pc = IF v.k + 1 < v.max_iters THEN "loop"
                                 ELSE "return"]

\* one iteration of for (int k = 0; k < max_iters; k++)
VqeIteration ==
  /\ vqe.pc = "loop"
  /\ \E current_energy \in Energies(vqe.molecule) :
       vqe' = StreamProgress(vqe, current_energy)
  /\ UNCHANGED <<store, expectation, diff, rpc, stream, metal>>

\* return grpc::Status::OK
VqeReturn ==
  /\ vqe.pc = "return"
  /\ vqe' = [vqe EXCEPT !.pc = "returned", !.status = "OK"]
  /\ UNCHANGED <<store, expectation, diff, rpc, stream, metal>>

NextVqe ==
  \/ RunVQEStep
  \/ VqeIteration
  \/ VqeReturn

SpecVqe == Init /\ [][NextVqe]_vars

\* the loop body and the return statement run to completion
SpecVqeFair == SpecVqe /\ WF_vars(VqeIteration) /\ WF_vars(VqeReturn)

(* ---------------------------------------------------------------------- *)
(* C24: RunVQE writes a response only at the end of an iteration k with    *)
(* k mod 5 = 0 or k = max_iterations - 1; the iteration numbers of the     *)
(* responses are strictly increasing; whenever the energy computed at an   *)
(* iteration is below the threshold, a response with converged = true is   *)
(* written for that iteration.                                             *)
(* ---------------------------------------------------------------------- *)
C24_Progress ==
  /\ \A j \in 1 .. Len(vqe.responses) :
       Reports(vqe.responses[j].iteration, vqe.max_iters)
  /\ \A j \in 1 .. (Len(vqe.responses) - 1) :
       vqe.responses[j].iteration < vqe.responses[j + 1].iteration
  /\ \A i \in 1 .. Len(vqe.energies) :
       Converged(vqe.energies[i]) =>
         \E j \in 1 .. Len(vqe.responses) :
           /\ vqe.responses[j].iteration = i - 1
           /\ vqe.responses[j].converged

\* the first two parts of C24: when and in which order responses are
\* written, and each response reports the energy of its iteration
C24_Reported ==
  /\ \A j \in 1 .. Len(vqe.responses) :
       /\ Reports(vqe.responses[j].iteration, vqe.max_iters)
       /\ vqe.responses[j].iteration < Len(vqe.energies)
       /\ vqe.responses[j].energy = vqe.energies[vqe.responses[j].iteration + 1]
       /\ vqe.responses[j].converged = Converged(vqe.responses[j].energy)
  /\ \A j \in 1 .. (Len(vqe.responses) - 1) :
       vqe.responses[j].iteration < vqe.responses[j + 1].iteration

(* ---------------------------------------------------------------------- *)
(* C30: in RunVQE a response with converged = true is always the last      *)
(* response of the stream: the loop ends after it, so at most one          *)
(* converged response is written; the RPC always terminates with OK after  *)
(* at most max_iterations iterations, writing nothing when                 *)
(* max_iterations <= 0.                                                    *)
(* ---------------------------------------------------------------------- *)
C30_Safe ==
  /\ \A j \in 1 .. Len(vqe.responses) :
       vqe.responses[j].converged =>
         /\ j = Len(vqe.responses)
         /\ vqe.pc \in {"return", "returned"}
         /\ Len(vqe.energies) = vqe.responses[j].iteration + 1
  /\ vqe.max_iters <= 0 => (vqe.energies = <<>> /\ vqe.responses = <<>>)
  /\ Len(vqe.energies) <= (IF vqe.max_iters > 0 THEN vqe.max_iters ELSE 0)
  /\ vqe.pc = "returned" => vqe.status = "OK"

C30_ConvergedLast ==
  /\ []C30_Safe
  /\ (vqe.pc # "idle") ~> (vqe.pc = "returned")

\* the energy fell below the threshold at iteration 5 of at most 7: the
\* converged response was written and the call returned after 6 iterations
C30_Witness ==
  /\ vqe.pc = "returned"
  /\ vqe.max_iters = 7
  /\ Len(vqe.energies) = 6
  /\ Len(vqe.responses) = 2
  /\ vqe.responses[2].iteration = 5
  /\ vqe.responses[2].converged

(* ---------------------------------------------------------------------- *)
(* Residency: toGPU, toCPU and applyHadamardMetal on a single-node store   *)
(* ---------------------------------------------------------------------- *)
\* kernel calls and transfers per run
MaxResident == 4

\* metal.initialize() on the context m: the first call looks for a device,
\* found tells whether there is one
MetalInitialize(m, found) ==
  IF m.device = "unknown"
  THEN [m EXCEPT !.device = IF found THEN "present" ELSE "absent",
                 !.available = found]
  ELSE m

\* if (!metal.isAvailable()) metal.initialize()
MetalAcquire(m, found) ==
  IF m.available THEN m ELSE MetalInitialize(m, found)

\* metal.uploadState(state.data(), num_qubits): the resident buffer holds a
\* copy of the host amplitudes v
uploadState(m, v) == [m EXCEPT !.buffer = v]

\* metal.runHadamard on a buffer: the Hadamard kernel of the accelerator
\* variant, with the semantics of the host kernel
runHadamard(buffer, target) == MatrixOnQubit("H", 0, buffer, target)

\* the amplitudes that are authoritative under the residency tag
Authoritative == IF metal.on_gpu THEN metal.buffer ELSE state[0]

\* toGPU on the context m (after its acquisition)
Resident(m, v) ==
  IF m.available
  THEN [uploadState(m, v) EXCEPT !.on_gpu = TRUE, !.transfers = @ + 1]
  ELSE [m EXCEPT !.transfers = @ + 1]

\* QuantumRegister::toGPU
ToGPU ==
  /\ Driver
  /\ ngates + metal.transfers < MaxResident
  /\ \E found \in BOOLEAN :
       metal' = Resident(MetalAcquire(metal, found), state[0])
  /\ UNCHANGED <<store, expectation, diff, rpc, stream, vqe>>

\* QuantumRegister::toCPU: metal.downloadState copies the resident buffer
\* into state
ToCPU ==
  /\ Driver
  /\ ngates + metal.transfers < MaxResident
  /\ IF metal.on_gpu /\ metal.available
     THEN /\ state' = [state EXCEPT ![0] = metal.buffer]
          /\ metal' = [metal EXCEPT !.on_gpu = FALSE, !.transfers = @ + 1]
     ELSE /\ state' = state
          /\ metal' = [metal EXCEPT !.transfers = @ + 1]
  /\ UNCHANGED <<num_qubits, world_size, mpi_enabled, scale, last, ngates,
                 recording_enabled, tape, expectation, diff, rpc, stream, vqe>>

\* applyHadamardMetal(target) on the context m (after its acquisition)
HadamardMetal(m, target) ==
  /\ metal' = IF m.available /\ m.on_gpu
              THEN [m EXCEPT !.buffer = runHadamard(@, target)]
              ELSE m
  /\ state' = IF m.available /\ m.on_gpu THEN state
              ELSE IF m.available
                   THEN [state EXCEPT ![0] = runHadamard(@, target)]
                   ELSE [state EXCEPT ![0] =
                           SingleQubitKernel("H", 0, @, target, FALSE)]
  /\ last' = [Called("H", <<target>>, 0, "returned", ~m.available)
                EXCEPT !.via = "metal"]

\* QuantumRegister::applyHadamardMetal
ApplyHadamardMetal ==
  /\ Driver
  /\ ngates + metal.transfers < MaxResident
  /\ \E target \in ValidQubits, found \in BOOLEAN :
       HadamardMetal(MetalAcquire(metal, found), target)
  /\ ngates' = ngates + 1
  /\ UNCHANGED <<num_qubits, world_size, mpi_enabled, scale,
                 recording_enabled, tape, expectation, diff, rpc, stream, vqe>>

\* a host kernel called on the store: applyX or applyHadamard
ResidentKernel ==
  /\ Driver
  /\ ngates + metal.transfers < MaxResident
  /\ \E kind \in {"X", "H"}, target \in ValidQubits :
       CallSingle(kind, target, 0)

NextResidency ==
  \/ ToGPU
  \/ ToCPU
  \/ ApplyHadamardMetal
  \/ ResidentKernel

SpecResidency == Init /\ [][NextResidency]_vars

(* ---------------------------------------------------------------------- *)
(* C25: every kernel operates on whichever residency is active: after      *)
(* toGPU a gate applied through any kernel (e.g. applyX) acts on the       *)
(* authoritative amplitudes and is reflected in the state obtained after   *)
(* toCPU; no sequence of transfers and gates loses a gate's effect.        *)
(* ---------------------------------------------------------------------- *)
C25_Step ==
  (ngates' = ngates + 1 /\ last'.via \in {"kernel", "metal"}) =>
    Authoritative' = MatrixOnQubit(last'.kind, last'.angle, Authoritative,
                                   last'.qubits[1])

C25_ActiveResidency == [][C25_Step]_vars

\* C25 for applyHadamardMetal alone: it acts on the authoritative copy
C25_MetalStep ==
  (ngates' = ngates + 1 /\ last'.via = "metal") =>
    Authoritative' = MatrixOnQubit("H", 0, Authoritative, last'.qubits[1])

C25_MetalKernel == [][C25_MetalStep]_vars

\* a transfer moves the authoritative amplitudes unchanged
C25_TransferStep ==
  (metal'.transfers = metal.transfers + 1) => Authoritative' = Authoritative

C25_Transfer == [][C25_TransferStep]_vars

====
